---- MODULE Spec2Model ----
(***************************************************************************)
(* Model of the procedural store (src/store/ProceduralContext.tsx): the    *)
(* terminal-state reconciler, the registries that route their writes       *)
(* through it, and node removal.                                           *)
(*                                                                         *)
(* Representation.  An optional JavaScript value is a sequence of length   *)
(* at most one: <<>> is undefined, <<v>> is the value v.  A payload object *)
(* is [ord, val]: ord is the insertion order of its own keys (what         *)
(* JSON.stringify walks), val gives each known key its optional value.  A  *)
(* key that is not in ord, and a key in ord whose value is undefined, both *)
(* read as undefined, exactly as property access does in the source.       *)
(***************************************************************************)
EXTENDS Integers, Sequences, FiniteSets, TLC

VARIABLES
    psdRegistry,        \* nodeId -> psd
    templateRegistry,   \* nodeId -> template metadata
    resolvedRegistry,   \* nodeId -> handleId -> mapping context
    payloadRegistry,    \* nodeId -> handleId -> payload object
    reviewerRegistry,   \* nodeId -> handleId -> payload object
    previewRegistry,    \* nodeId -> handleId -> url
    analysisRegistry,   \* nodeId -> handleId -> strategy
    knowledgeRegistry,  \* nodeId -> knowledge context
    globalVersion,      \* number
    lastCall,           \* the store operation that ran last, with its arguments
    changed,            \* whether that operation's state updater returned a new map
    repeated,           \* whether that operation repeats the one before it
    scenario,           \* progress of the three-write scenario on the scenario slot
    rIncoming,          \* reconciler harness: the incoming payload
    rCurrent,           \* reconciler harness: the current payload, optional
    rResolved,          \* reconciler harness: the result, optional
    rAgain,             \* reconciler harness: the result reconciled with itself, optional
    oPayload,           \* override harness: the payload given to applyOverridesToPayload
    oOverrides,         \* override harness: the overrides given to it
    oResult,            \* override harness: what it returned, optional
    hookContext,        \* what useContext gave the last useProceduralStore call, optional
    hookResult,         \* how that call ended (none, threw, returned) and what it returned
    row,                \* the props a ReviewerInstanceRow's store effect last ran with
    scoper,             \* the text given to useKnowledgeScoper and what it returned
    audit               \* a ReviewerInstanceRow: props, state, ref and pending effects

vars == <<psdRegistry, templateRegistry, resolvedRegistry, payloadRegistry,
          reviewerRegistry, previewRegistry, analysisRegistry, knowledgeRegistry,
          globalVersion, lastCall, changed, repeated, scenario,
          rIncoming, rCurrent, rResolved, rAgain,
          oPayload, oOverrides, oResult, hookContext, hookResult, row, scoper, audit>>

----------------------------------------------------------------------------
(* Bounds *)

MaxGen == 2

MaxVersion == 1

----------------------------------------------------------------------------
(* JavaScript values and objects *)

UNDEF == <<>>

Some(v) == <<v>>

T == <<TRUE>>

F == <<FALSE>>

\* Boolean(v) for an optional boolean
TruthyBool(v) == v = T

\* Boolean(v) for an optional number: undefined and 0 are falsy
TruthyNum(v) == v # UNDEF /\ v[1] # 0

\* Boolean(v) for an optional string: undefined and '' are falsy
TruthyStr(v) == v # UNDEF /\ v[1] # ""

\* a || b on optional numbers, strings, and objects (an object is truthy)
OrNum(a, b) == IF TruthyNum(a) THEN a ELSE b

OrStr(a, b) == IF TruthyStr(a) THEN a ELSE b

OrObj(a, b) == IF a # UNDEF THEN a ELSE b

\* a ?? b
Nullish(a, b) == IF a # UNDEF THEN a ELSE b

Keys ==
    {"status", "sourceContainer", "targetContainer", "layers", "metrics",
     "generationId", "previewUrl", "sourceReference", "isSynthesizing",
     "isConfirmed", "isTransient", "generationAllowed", "isMandatory",
     "directives", "requiresGeneration", "isPolished",
     "name", "method", "generativePrompt", "aiStrategy"}

\* The order in which a producer's object literal lists its keys.
KeyOrder ==
    <<"status", "sourceContainer", "targetContainer", "layers", "metrics",
      "generationId", "previewUrl", "sourceReference", "isSynthesizing",
      "isConfirmed", "isTransient", "generationAllowed", "isMandatory",
      "directives", "requiresGeneration", "isPolished",
      "name", "method", "generativePrompt", "aiStrategy">>

Range(s) == {s[i] : i \in DOMAIN s}

EmptyObj == [ord |-> <<>>, val |-> [k \in Keys |-> UNDEF]]

\* o.k, and o?.k for an optional object
Get(o, k) == o.val[k]

GetOpt(oo, k) == IF oo = UNDEF THEN UNDEF ELSE Get(oo[1], k)

\* the object after o[k] = v: an existing key keeps its place, a new one goes last
Put(o, k, v) ==
    [ord |-> IF k \in Range(o.ord) THEN o.ord ELSE Append(o.ord, k),
     val |-> [o.val EXCEPT ![k] = v]]

\* { ...o, k1: v1, k2: v2, ... } with the entries given as <<k, v>> pairs in order
RECURSIVE PutAll(_, _)
PutAll(o, kvs) ==
    IF kvs = <<>> THEN o
    ELSE PutAll(Put(o, Head(kvs)[1], Head(kvs)[2]), Tail(kvs))

\* { ...a, ...b }
Spread(a, b) == PutAll(a, [i \in DOMAIN b.ord |-> <<b.ord[i], b.val[b.ord[i]]>>])

\* JSON.stringify(o): own keys in insertion order, undefined-valued keys left out
JSONstringify(o) ==
    LET keep(k) == o.val[k] # UNDEF
    IN  [ord |-> SelectSeq(o.ord, keep), val |-> o.val]

\* A producer's object literal: the defined fields of rec in KeyOrder.
MkPayload(rec) ==
    LET given(k) == k \in DOMAIN rec /\ rec[k] # UNDEF
    IN  [ord |-> SelectSeq(KeyOrder, given),
         val |-> [k \in Keys |-> IF k \in DOMAIN rec THEN rec[k] ELSE UNDEF]]

\* Structural equality of two payloads: every field has the same value.
StructEq(a, b) == a.val = b.val

----------------------------------------------------------------------------
(* Layers *)

SyntheticPrefix == "gen-layer-"

MandatoryToken == "MANDATORY_GEN_FILL"

\* String.prototype.startsWith
StartsWith(s, p) == Len(s) >= Len(p) /\ SubSeq(s, 1, Len(p)) = p

Layer(id, type, children) == [id |-> id, type |-> type, children |-> children]

\* a filter callback without the prefix test: every generative layer with an
\* id is kept
KeepLayerAnyId(l) == l.type # "generative" \/ l.id # ""

\* a filter callback without the id tests: every generative layer is dropped
KeepLayerNonGenerative(l) == l.type # "generative"

\* the filter callback of the hard stop; '' is falsy, so an empty id fails l.id && ...
KeepLayer(l) ==
    l.type # "generative" \/ (l.id # "" /\ ~StartsWith(l.id, SyntheticPrefix))

\* a filter that also walks into the children of the layers it keeps
RECURSIVE FilterLayersDeep(_)
FilterLayersDeep(ls) ==
    LET kept == SelectSeq(ls, KeepLayer)
    IN  [i \in DOMAIN kept |-> [kept[i] EXCEPT !.children = FilterLayersDeep(@)]]

\* Array.prototype.filter with KeepLayer: top level only, order kept
FilterLayers(ls) == SelectSeq(ls, KeepLayer)

----------------------------------------------------------------------------
(* reconcileTerminalState *)

\* incomingPayload.directives?.includes('MANDATORY_GEN_FILL')
hasMandatoryDirective(incoming) ==
    LET d == Get(incoming, "directives")
    IN  d # UNDEF /\ MandatoryToken \in Range(d[1])

\* incomingPayload.isMandatory || hasMandatoryDirective
isForced(incoming) ==
    TruthyBool(Get(incoming, "isMandatory")) \/ hasMandatoryDirective(incoming)

\* a gate that filters the layers but lets the preview and the flags through
HardStopLayersOnly(incoming) ==
    PutAll(incoming,
        << <<"metrics", Get(incoming, "metrics")>>,
           <<"layers", Some(FilterLayers(Get(incoming, "layers")[1]))>> >>)


\* 0. generative logic gate: the result when generationAllowed === false
HardStop(incoming) ==
    PutAll(incoming,
        << <<"previewUrl", UNDEF>>,
           <<"isConfirmed", F>>,
           <<"isTransient", F>>,
           <<"isSynthesizing", F>>,
           <<"requiresGeneration", F>>,
           <<"metrics", Get(incoming, "metrics")>>,
           <<"layers", Some(FilterLayers(Get(incoming, "layers")[1]))>> >>)

\* an auto-confirmation that also consumes the requiresGeneration request
AutoConfirmConsuming(incoming, current) ==
    PutAll(incoming,
        << <<"status", Some("success")>>,
           <<"isConfirmed", T>>,
           <<"isTransient", F>>,
           <<"requiresGeneration", F>>,
           <<"isSynthesizing", Get(incoming, "isSynthesizing")>>,
           <<"previewUrl",
             OrStr(Get(incoming, "previewUrl"), GetOpt(current, "previewUrl"))>>,
           <<"sourceReference",
             OrStr(Get(incoming, "sourceReference"), GetOpt(current, "sourceReference"))>>,
           <<"generationId",
             OrNum(Get(incoming, "generationId"), GetOpt(current, "generationId"))>> >>)

\* an auto-confirmation that back-fills the other way round: current's
\* previewUrl, sourceReference and generationId win over incoming's
AutoConfirmCurrentFirst(incoming, current) ==
    PutAll(incoming,
        << <<"status", Some("success")>>,
           <<"isConfirmed", T>>,
           <<"isTransient", F>>,
           <<"isSynthesizing", Get(incoming, "isSynthesizing")>>,
           <<"previewUrl",
             OrStr(GetOpt(current, "previewUrl"), Get(incoming, "previewUrl"))>>,
           <<"sourceReference",
             OrStr(GetOpt(current, "sourceReference"), Get(incoming, "sourceReference"))>>,
           <<"generationId",
             OrNum(GetOpt(current, "generationId"), Get(incoming, "generationId"))>> >>)

\* phase 4B: forced auto-confirmation
AutoConfirm(incoming, current) ==
    PutAll(incoming,
        << <<"status", Some("success")>>,
           <<"isConfirmed", T>>,
           <<"isTransient", F>>,
           <<"isSynthesizing", Get(incoming, "isSynthesizing")>>,
           <<"previewUrl",
             OrStr(Get(incoming, "previewUrl"), GetOpt(current, "previewUrl"))>>,
           <<"sourceReference",
             OrStr(Get(incoming, "sourceReference"), GetOpt(current, "sourceReference"))>>,
           <<"generationId",
             OrNum(Get(incoming, "generationId"), GetOpt(current, "generationId"))>> >>)

\* a stale guard with its comparison turned round: it rejects the newer id
IsStaleNewer(incoming, current) ==
    /\ TruthyNum(GetOpt(current, "generationId"))
    /\ TruthyNum(Get(incoming, "generationId"))
    /\ Get(incoming, "generationId")[1] > GetOpt(current, "generationId")[1]

\* 1. the stale guard's condition
IsStale(incoming, current) ==
    /\ TruthyNum(GetOpt(current, "generationId"))
    /\ TruthyNum(Get(incoming, "generationId"))
    /\ Get(incoming, "generationId")[1] < GetOpt(current, "generationId")[1]

\* a sanitation that clears the flags and leaves the preview in place
IdleResetKeepsPreview(incoming) ==
    PutAll(incoming,
        << <<"isConfirmed", F>>,
           <<"isTransient", F>>,
           <<"isSynthesizing", F>> >>)

\* 2. sanitation: the result for status 'idle'
IdleReset(incoming) ==
    PutAll(incoming,
        << <<"previewUrl", UNDEF>>,
           <<"isConfirmed", F>>,
           <<"isTransient", F>>,
           <<"isSynthesizing", F>> >>)

\* a flush that starts from incoming even when the slot holds a payload
FlushFromIncoming(incoming, current) ==
    PutAll(incoming,
        << <<"isSynthesizing", T>>,
           <<"previewUrl", GetOpt(current, "previewUrl")>>,
           <<"sourceReference",
             OrStr(Get(incoming, "sourceReference"), GetOpt(current, "sourceReference"))>>,
           <<"targetContainer",
             OrStr(OrStr(Get(incoming, "targetContainer"),
                         GetOpt(current, "targetContainer")), Some(""))>>,
           <<"metrics", OrObj(Get(incoming, "metrics"), GetOpt(current, "metrics"))>>,
           <<"generationId", GetOpt(current, "generationId")>>,
           <<"generationAllowed", T>> >>)

\* a flush that lets a first synthesis start keep its own generationId
FlushKeepsStamp(incoming, current) ==
    PutAll(IF current # UNDEF THEN current[1] ELSE incoming,
        << <<"isSynthesizing", T>>,
           <<"previewUrl", GetOpt(current, "previewUrl")>>,
           <<"sourceReference",
             OrStr(Get(incoming, "sourceReference"), GetOpt(current, "sourceReference"))>>,
           <<"targetContainer",
             OrStr(OrStr(Get(incoming, "targetContainer"),
                         GetOpt(current, "targetContainer")), Some(""))>>,
           <<"metrics", OrObj(Get(incoming, "metrics"), GetOpt(current, "metrics"))>>,
           <<"generationId",
             OrNum(GetOpt(current, "generationId"), Get(incoming, "generationId"))>>,
           <<"generationAllowed", T>> >>)

\* 3. flush phase: the result when incoming.isSynthesizing
Flush(incoming, current) ==
    PutAll(IF current # UNDEF THEN current[1] ELSE incoming,
        << <<"isSynthesizing", T>>,
           <<"previewUrl", GetOpt(current, "previewUrl")>>,
           <<"sourceReference",
             OrStr(Get(incoming, "sourceReference"), GetOpt(current, "sourceReference"))>>,
           <<"targetContainer",
             OrStr(OrStr(Get(incoming, "targetContainer"),
                         GetOpt(current, "targetContainer")), Some(""))>>,
           <<"metrics", OrObj(Get(incoming, "metrics"), GetOpt(current, "metrics"))>>,
           <<"generationId", GetOpt(current, "generationId")>>,
           <<"generationAllowed", T>> >>)

\* a confirmation that does not look at isTransient
ConfirmedOfAnyDraft(incoming, current) ==
    Nullish(Nullish(Get(incoming, "isConfirmed"), GetOpt(current, "isConfirmed")), F)

\* 4. refinement persistence: the local isConfirmed
ConfirmedOf(incoming, current) ==
    IF TruthyBool(Get(incoming, "isTransient")) THEN F
    ELSE Nullish(Nullish(Get(incoming, "isConfirmed"), GetOpt(current, "isConfirmed")), F)

\* a layout-update test that takes 0 for an id: incoming.generationId === undefined
IsLayoutUpdateStrict(incoming, current) ==
    /\ Get(incoming, "generationId") = UNDEF
    /\ TruthyNum(GetOpt(current, "generationId"))

\* 5. geometric preservation: its condition and its result
IsLayoutUpdate(incoming, current) ==
    /\ ~TruthyNum(Get(incoming, "generationId"))
    /\ TruthyNum(GetOpt(current, "generationId"))

\* a preservation that lets the layout update bring its own previewUrl
PreserveOwnPreview(incoming, current) ==
    PutAll(incoming,
        << <<"previewUrl", Get(incoming, "previewUrl")>>,
           <<"generationId", GetOpt(current, "generationId")>>,
           <<"isSynthesizing", GetOpt(current, "isSynthesizing")>>,
           <<"isConfirmed", GetOpt(current, "isConfirmed")>>,
           <<"isTransient", GetOpt(current, "isTransient")>>,
           <<"sourceReference",
             OrStr(GetOpt(current, "sourceReference"), Get(incoming, "sourceReference"))>>,
           <<"generationAllowed", T>> >>)

Preserve(incoming, current) ==
    PutAll(incoming,
        << <<"previewUrl", GetOpt(current, "previewUrl")>>,
           <<"generationId", GetOpt(current, "generationId")>>,
           <<"isSynthesizing", GetOpt(current, "isSynthesizing")>>,
           <<"isConfirmed", GetOpt(current, "isConfirmed")>>,
           <<"isTransient", GetOpt(current, "isTransient")>>,
           <<"sourceReference",
             OrStr(GetOpt(current, "sourceReference"), Get(incoming, "sourceReference"))>>,
           <<"generationAllowed", T>> >>)

\* a final construction that takes generationId from incoming alone
FinalConstructionOwnId(incoming, current) ==
    PutAll(incoming,
        << <<"isConfirmed", ConfirmedOf(incoming, current)>>,
           <<"sourceReference",
             OrStr(Get(incoming, "sourceReference"), GetOpt(current, "sourceReference"))>>,
           <<"generationId", Get(incoming, "generationId")>>,
           <<"generationAllowed", T>> >>)

\* 6. final construction
FinalConstruction(incoming, current) ==
    PutAll(incoming,
        << <<"isConfirmed", ConfirmedOf(incoming, current)>>,
           <<"sourceReference",
             OrStr(Get(incoming, "sourceReference"), GetOpt(current, "sourceReference"))>>,
           <<"generationId",
             OrNum(Get(incoming, "generationId"), GetOpt(current, "generationId"))>>,
           <<"generationAllowed", T>> >>)

\* a rule order with the forced auto-confirmation ahead of the hard stop
RuleOfForcedFirst(incoming, current) ==
    IF isForced(incoming) /\ TruthyBool(Get(incoming, "requiresGeneration"))
         THEN "autoConfirm"
    ELSE IF Get(incoming, "generationAllowed") = F THEN "hardStop"
    ELSE IF IsStale(incoming, current) THEN "stale"
    ELSE IF Get(incoming, "status") = Some("idle") THEN "idle"
    ELSE IF TruthyBool(Get(incoming, "isSynthesizing")) THEN "flush"
    ELSE IF IsLayoutUpdate(incoming, current) THEN "preserve"
    ELSE "final"

\* a rule order with the idle sanitation ahead of the stale guard
RuleOfIdleFirst(incoming, current) ==
    IF Get(incoming, "generationAllowed") = F THEN "hardStop"
    ELSE IF isForced(incoming) /\ TruthyBool(Get(incoming, "requiresGeneration"))
         THEN "autoConfirm"
    ELSE IF Get(incoming, "status") = Some("idle") THEN "idle"
    ELSE IF IsStale(incoming, current) THEN "stale"
    ELSE IF TruthyBool(Get(incoming, "isSynthesizing")) THEN "flush"
    ELSE IF IsLayoutUpdate(incoming, current) THEN "preserve"
    ELSE "final"

\* The rule the reconciler applies (its first test that succeeds).
RuleOf(incoming, current) ==
    IF Get(incoming, "generationAllowed") = F THEN "hardStop"
    ELSE IF isForced(incoming) /\ TruthyBool(Get(incoming, "requiresGeneration"))
         THEN "autoConfirm"
    ELSE IF IsStale(incoming, current) THEN "stale"
    ELSE IF Get(incoming, "status") = Some("idle") THEN "idle"
    ELSE IF TruthyBool(Get(incoming, "isSynthesizing")) THEN "flush"
    ELSE IF IsLayoutUpdate(incoming, current) THEN "preserve"
    ELSE "final"

reconcileTerminalState(incoming, current) ==
    LET rule == RuleOf(incoming, current)
    IN  CASE rule = "hardStop"    -> HardStop(incoming)
          [] rule = "autoConfirm" -> AutoConfirm(incoming, current)
          [] rule = "stale"       -> current[1]
          [] rule = "idle"        -> IdleReset(incoming)
          [] rule = "flush"       -> Flush(incoming, current)
          [] rule = "preserve"    -> Preserve(incoming, current)
          [] OTHER                -> FinalConstruction(incoming, current)

----------------------------------------------------------------------------
(* Inputs: the payloads producers pass to the store *)

GenIds == {UNDEF} \cup {Some(g) : g \in 0..MaxGen}

\* the spec's three-layer example: a pixel layer, a swapped generative layer
\* that kept its original id, and an additive generative layer
MixedLayers ==
    << Layer("0.1", "pixel", <<>>),
       Layer("0.2", "generative", <<>>),
       Layer("gen-layer-7", "generative", <<>>) >>

\* ids around the prefix test: no id, a near miss of the prefix, a pixel layer
\* with a synthetic id, and a group that owns an additive generative child
EdgeLayers ==
    << Layer("gen-layer-1", "generative", <<>>),
       Layer("", "generative", <<>>),
       Layer("0.3", "group", << Layer("gen-layer-8", "generative", <<>>) >>),
       Layer("gen-layer", "generative", <<>>),
       Layer("gen-layer-9", "pixel", <<>>) >>

LayerLists == {MixedLayers, EdgeLayers}

Metrics == {[scale |-> 1], [scale |-> 2]}

\* who forces generation: nobody, the isMandatory flag, or the directive
Forcings ==
    { [isMandatory |-> UNDEF, directives |-> UNDEF],
      [isMandatory |-> T,     directives |-> Some(<<>>)],
      [isMandatory |-> F,     directives |-> Some(<<"KEEP_RATIO", MandatoryToken>>)] }

\* provenance and geometry supplied together or not at all
Extras ==
    { [sourceReference |-> UNDEF, targetContainer |-> UNDEF, metrics |-> UNDEF],
      [sourceReference |-> Some("S1"), targetContainer |-> Some("c1"),
       metrics |-> Some([scale |-> 1])] }

\* incoming payloads of the reconciler harness
Incomings ==
    { MkPayload([status |-> Some(st), layers |-> Some(ls),
                 generationId |-> g, previewUrl |-> pu,
                 isSynthesizing |-> syn, isConfirmed |-> conf, isTransient |-> tr,
                 generationAllowed |-> ga,
                 isMandatory |-> fo.isMandatory, directives |-> fo.directives,
                 requiresGeneration |-> rg,
                 sourceReference |-> ex.sourceReference,
                 targetContainer |-> ex.targetContainer,
                 metrics |-> ex.metrics]) :
        st \in {"idle", "success"}, ls \in LayerLists, g \in GenIds,
        pu \in {UNDEF, Some("A")}, syn \in {F, T}, conf \in {UNDEF, F, T},
        tr \in {UNDEF, T}, ga \in {UNDEF, F}, fo \in Forcings, rg \in {F, T},
        ex \in Extras }

\* what a slot may hold when a write arrives
CurrentProfiles ==
    { [status |-> Some("success"), previewUrl |-> Some("B"), isSynthesizing |-> F,
       isConfirmed |-> T, isTransient |-> F, sourceReference |-> Some("S2"),
       targetContainer |-> Some("c2"), metrics |-> Some([scale |-> 2]),
       generationAllowed |-> T, requiresGeneration |-> UNDEF, isMandatory |-> UNDEF],
      [status |-> Some("idle"), previewUrl |-> UNDEF, isSynthesizing |-> F,
       isConfirmed |-> F, isTransient |-> F, sourceReference |-> UNDEF,
       targetContainer |-> UNDEF, metrics |-> UNDEF,
       generationAllowed |-> UNDEF, requiresGeneration |-> UNDEF, isMandatory |-> UNDEF],
      [status |-> Some("loading"), previewUrl |-> Some("B"), isSynthesizing |-> T,
       isConfirmed |-> UNDEF, isTransient |-> T, sourceReference |-> UNDEF,
       targetContainer |-> Some("c2"), metrics |-> Some([scale |-> 2]),
       generationAllowed |-> T, requiresGeneration |-> T, isMandatory |-> T] }

Currents ==
    {UNDEF} \cup
    { Some(MkPayload([status |-> c.status, layers |-> Some(MixedLayers),
                      generationId |-> g, previewUrl |-> c.previewUrl,
                      isSynthesizing |-> c.isSynthesizing,
                      isConfirmed |-> c.isConfirmed, isTransient |-> c.isTransient,
                      sourceReference |-> c.sourceReference,
                      targetContainer |-> c.targetContainer, metrics |-> c.metrics,
                      generationAllowed |-> c.generationAllowed,
                      requiresGeneration |-> c.requiresGeneration,
                      isMandatory |-> c.isMandatory])) :
        c \in CurrentProfiles, g \in GenIds }

----------------------------------------------------------------------------
(* State *)

EmptyRegistry == [n \in {} |-> UNDEF]

NoCall ==
    [op |-> "none", nodeId |-> "", handleId |-> "", payload |-> EmptyObj,
     masterOverride |-> UNDEF]

StoreInit ==
    /\ psdRegistry = EmptyRegistry
    /\ templateRegistry = EmptyRegistry
    /\ resolvedRegistry = EmptyRegistry
    /\ payloadRegistry = EmptyRegistry
    /\ reviewerRegistry = EmptyRegistry
    /\ previewRegistry = EmptyRegistry
    /\ analysisRegistry = EmptyRegistry
    /\ knowledgeRegistry = EmptyRegistry
    /\ globalVersion = 0
    /\ lastCall = NoCall
    /\ changed = FALSE
    /\ repeated = FALSE
    /\ scenario = 0

storeVars == <<psdRegistry, templateRegistry, resolvedRegistry, payloadRegistry,
               reviewerRegistry, previewRegistry, analysisRegistry,
               knowledgeRegistry, globalVersion, lastCall, changed, repeated,
               scenario>>

----------------------------------------------------------------------------
(* The reconciler on its own: every pair of inputs, then one application *)

\* nothing has called applyOverridesToPayload or useProceduralStore
sideVars == <<oPayload, oOverrides, oResult, hookContext, hookResult, row, scoper, audit>>

\* a row that has no incoming payload and no audit yet (both null)
NoRow == [incomingPayload |-> UNDEF, reviewerStrategy |-> UNDEF]

\* useKnowledgeScoper has not been called
NoScoper == [lines |-> <<>>, rawRules |-> UNDEF, result |-> UNDEF]

\* const DEFAULT_REVIEWER_STATE = { chatHistory: [], reviewerStrategy: null };
\* the chat history is the number of its messages
DEFAULT_REVIEWER_STATE == [chatHistory |-> 0, reviewerStrategy |-> UNDEF]

\* a reviewer row before its first render: what the parent hands it now
\* (incomingPayload, state), its ref, the props its effects last ran with, the
\* payload generation an audit in flight was started on, and whether a
\* defined generationId has been recorded so far
NoAudit ==
    [incomingPayload |-> UNDEF, state |-> DEFAULT_REVIEWER_STATE,
     lastProcessedGenerationId |-> UNDEF, rendered |-> UNDEF,
     reviewing |-> UNDEF, observed |-> FALSE]

SideInit ==
    /\ oPayload = EmptyObj
    /\ oOverrides = <<>>
    /\ oResult = UNDEF
    /\ hookContext = UNDEF
    /\ hookResult = [outcome |-> "none", value |-> UNDEF]
    /\ row = NoRow
    /\ scoper = NoScoper
    /\ audit = NoAudit

InitReconcile ==
    /\ StoreInit
    /\ SideInit
    /\ rIncoming \in Incomings
    /\ rCurrent \in Currents
    /\ rResolved = UNDEF
    /\ rAgain = UNDEF

Reconcile ==
    /\ rResolved = UNDEF
    /\ rResolved' = Some(reconcileTerminalState(rIncoming, rCurrent))
    /\ UNCHANGED <<rIncoming, rCurrent, rAgain>>
    /\ UNCHANGED storeVars
    /\ UNCHANGED sideVars

\* the result fed back as both arguments
Reapply ==
    /\ rResolved # UNDEF
    /\ rAgain = UNDEF
    /\ rAgain' = Some(reconcileTerminalState(rResolved[1], rResolved))
    /\ UNCHANGED <<rIncoming, rCurrent, rResolved>>
    /\ UNCHANGED storeVars
    /\ UNCHANGED sideVars

NextReconcile == Reconcile \/ Reapply

SpecReconcile == InitReconcile /\ [][NextReconcile]_vars

----------------------------------------------------------------------------
(* Registries: Record<string, Record<string, V>> and Record<string, V> *)

\* prev[nodeId] || {}
NodeRecord(reg, nodeId) ==
    IF nodeId \in DOMAIN reg THEN reg[nodeId] ELSE [h \in {} |-> UNDEF]

\* (prev[nodeId] || {})[handleId], optional
Lookup(reg, nodeId, handleId) ==
    IF handleId \in DOMAIN NodeRecord(reg, nodeId)
    THEN Some(NodeRecord(reg, nodeId)[handleId])
    ELSE UNDEF

\* a store that forgets the spread of the node's record: { ...prev, [nodeId]:
\* { [handleId]: v } }
StoreAlone(reg, nodeId, handleId, v) ==
    [n \in DOMAIN reg \cup {nodeId} |->
        IF n = nodeId THEN [h \in {handleId} |-> v] ELSE reg[n]]

\* { ...prev, [nodeId]: { ...nodeRecord, [handleId]: v } }
Store(reg, nodeId, handleId, v) ==
    LET rec == NodeRecord(reg, nodeId)
    IN  [n \in DOMAIN reg \cup {nodeId} |->
            IF n = nodeId
            THEN [h \in DOMAIN rec \cup {handleId} |->
                     IF h = handleId THEN v ELSE rec[h]]
            ELSE reg[n]]

\* a removal that returns the map as it was
WithoutNothing(reg, nodeId) == reg

\* const { [nodeId]: _, ...rest } = prev; return rest
Without(reg, nodeId) == [n \in DOMAIN reg \ {nodeId} |-> reg[n]]

\* the deep equality test of the writers: current && JSON.stringify(current)
\* === JSON.stringify(reconciled)
SameJSON(current, reconciled) ==
    current # UNDEF /\ JSONstringify(current[1]) = JSONstringify(reconciled)

\* What a state updater returns: the map, and whether it is a new object
\* (fresh) or prev itself, which React takes as "no change".
Kept(prev) == [map |-> prev, fresh |-> FALSE]

Replaced(map) == [map |-> map, fresh |-> TRUE]

\* a tail without the equality test: a new map on every write
CommitAlways(prev, nodeId, handleId, reconciled) ==
    Replaced(Store(prev, nodeId, handleId, reconciled))

\* the tail shared by the payload writers: return prev when the JSON texts
\* agree, else a new map holding the reconciled payload
Commit(prev, nodeId, handleId, reconciled) ==
    IF SameJSON(Lookup(prev, nodeId, handleId), reconciled)
    THEN Kept(prev)
    ELSE Replaced(Store(prev, nodeId, handleId, reconciled))

----------------------------------------------------------------------------
(* Store operations *)

Call(op, nodeId, handleId, payload, masterOverride) ==
    [op |-> op, nodeId |-> nodeId, handleId |-> handleId,
     payload |-> payload, masterOverride |-> masterOverride]

\* an effective payload that does not look at the master gate
EffectivePayloadUngated(payload, masterOverride) == payload

\* registerPayload: let effectivePayload = { ...payload }, closed when the
\* master gate is explicitly false
EffectivePayload(payload, masterOverride) ==
    IF masterOverride = F THEN Put(payload, "generationAllowed", F) ELSE payload

\* the state updater of registerPayload
RegisterPayloadUpdater(prev, nodeId, handleId, payload, masterOverride) ==
    Commit(prev, nodeId, handleId,
           reconcileTerminalState(EffectivePayload(payload, masterOverride),
                                  Lookup(prev, nodeId, handleId)))

\* an effective payload that trusts the caller's isPolished
PolishedAsGiven(payload) == payload

\* registerReviewerPayload: { ...payload, isPolished: true }
PolishedPayload(payload) == Put(payload, "isPolished", T)

\* the state updater of registerReviewerPayload
RegisterReviewerUpdater(prev, nodeId, handleId, payload) ==
    Commit(prev, nodeId, handleId,
           reconcileTerminalState(PolishedPayload(payload),
                                  Lookup(prev, nodeId, handleId)))

\* updatePayload: the early return for a slot that holds nothing
PartialIgnored(current, partial) ==
    /\ current = UNDEF
    /\ ~TruthyStr(Get(partial, "sourceContainer"))
    /\ ~TruthyStr(Get(partial, "previewUrl"))

\* updatePayload: current ? { ...current, ...partial } : partial
MergedPayload(current, partial) ==
    IF current # UNDEF THEN Spread(current[1], partial) ELSE partial

\* incomingPayload.layers.filter(...) on a payload without layers is a TypeError
ReconcileThrows(incoming) ==
    Get(incoming, "generationAllowed") = F /\ Get(incoming, "layers") = UNDEF

\* the state updater of updatePayload; an updater that throws leaves the state
UpdatePayloadUpdater(prev, nodeId, handleId, partial) ==
    LET current == Lookup(prev, nodeId, handleId)
        merged  == MergedPayload(current, partial)
    IN  IF PartialIgnored(current, partial) \/ ReconcileThrows(merged)
        THEN Kept(prev)
        ELSE Commit(prev, nodeId, handleId, reconcileTerminalState(merged, current))

----------------------------------------------------------------------------
(* The store: payload and reviewer writes, partial updates, node removal *)

Nodes == {"n1"}

Handles == {"h1"}

BaseLayers == << Layer("0.1", "pixel", <<>>) >>

\* a producer starts synthesis of generation g
SynthesisStart(g) ==
    MkPayload([status |-> Some("loading"), layers |-> Some(BaseLayers),
               generationId |-> g, isSynthesizing |-> T])

\* synthesis of generation g completed with visual 'A'
SynthesisDone(g) ==
    MkPayload([status |-> Some("success"), layers |-> Some(BaseLayers),
               generationId |-> g, previewUrl |-> Some("A"), isSynthesizing |-> F])

\* a completion carrying visual 'OLD'
LateResult(g) ==
    MkPayload([status |-> Some("success"), layers |-> Some(BaseLayers),
               generationId |-> g, previewUrl |-> Some("OLD")])

\* disconnection or reset
IdleSignal(g) ==
    MkPayload([status |-> Some("idle"), layers |-> Some(BaseLayers),
               generationId |-> g])

\* a directive forces generation
ForcedFill(g) ==
    MkPayload([status |-> Some("loading"), layers |-> Some(BaseLayers),
               generationId |-> g, isMandatory |-> T, requiresGeneration |-> T])

WritePayloads ==
    UNION { {SynthesisStart(g), SynthesisDone(g), LateResult(g), IdleSignal(g),
             ForcedFill(g)} : g \in GenIds }

ReviewerPayloads ==
    {SynthesisDone(Some(MaxGen)), LateResult(Some(1)), IdleSignal(UNDEF)}

\* payloads written while the master gate is closed
GatedPayloads == {SynthesisDone(Some(MaxGen)), SynthesisStart(UNDEF)}

Partials ==
    { MkPayload([previewUrl |-> Some("P")]),
      MkPayload([generationId |-> Some(0), status |-> Some("idle")]),
      MkPayload([generationId |-> Some(1), isSynthesizing |-> F]) }

\* the slot and the three writes of the spec's scenario
ScenarioNode == "n1"

ScenarioHandle == "h1"

ScenarioWrites ==
    << SynthesisStart(Some(1)), SynthesisDone(Some(1)), LateResult(Some(0)) >>

\* the operations that do not write the payload registry
OtherRegistryOps ==
    {"registerPsd", "registerTemplate", "registerResolved", "registerReviewerPayload",
     "registerPreviewPayload", "registerAnalysis", "registerKnowledge",
     "triggerGlobalRefresh"}

\* how far the scenario has got once call has run on a store holding prev
ScenarioAfter(call, prev) ==
    LET onSlot == call.nodeId = ScenarioNode /\ call.handleId = ScenarioHandle
        plain  == call.op = "registerPayload" /\ onSlot /\ call.masterOverride = UNDEF
    IN  IF plain /\ call.payload = ScenarioWrites[1]
             /\ Lookup(prev, ScenarioNode, ScenarioHandle) = UNDEF THEN 1
        ELSE IF plain /\ scenario = 1 /\ call.payload = ScenarioWrites[2] THEN 2
        ELSE IF plain /\ scenario = 2 /\ call.payload = ScenarioWrites[3] THEN 3
        ELSE IF call.op \in OtherRegistryOps THEN scenario
        ELSE IF call.op = "unregisterNode" /\ call.nodeId # ScenarioNode THEN scenario
        ELSE IF call.op \in {"registerPayload", "updatePayload"} /\ ~onSlot THEN scenario
        ELSE 0

Ran(call) ==
    /\ lastCall' = call
    /\ repeated' = (call = lastCall)
    /\ scenario' = ScenarioAfter(call, payloadRegistry)

harnessVars == <<rIncoming, rCurrent, rResolved, rAgain,
                 oPayload, oOverrides, oResult, hookContext, hookResult, row, scoper, audit>>

Init ==
    /\ StoreInit
    /\ SideInit
    /\ rIncoming = EmptyObj
    /\ rCurrent = UNDEF
    /\ rResolved = UNDEF
    /\ rAgain = UNDEF

registerPayload(nodeId, handleId, payload, masterOverride) ==
    /\ LET next == RegisterPayloadUpdater(payloadRegistry, nodeId, handleId,
                                          payload, masterOverride)
       IN  payloadRegistry' = next.map /\ changed' = next.fresh
    /\ Ran(Call("registerPayload", nodeId, handleId, payload, masterOverride))
    /\ UNCHANGED <<psdRegistry, templateRegistry, resolvedRegistry, reviewerRegistry,
                   previewRegistry, analysisRegistry, knowledgeRegistry, globalVersion>>
    /\ UNCHANGED harnessVars

registerReviewerPayload(nodeId, handleId, payload) ==
    /\ LET next == RegisterReviewerUpdater(reviewerRegistry, nodeId, handleId, payload)
       IN  reviewerRegistry' = next.map /\ changed' = next.fresh
    /\ Ran(Call("registerReviewerPayload", nodeId, handleId, payload, UNDEF))
    /\ UNCHANGED <<psdRegistry, templateRegistry, resolvedRegistry, payloadRegistry,
                   previewRegistry, analysisRegistry, knowledgeRegistry, globalVersion>>
    /\ UNCHANGED harnessVars

updatePayload(nodeId, handleId, partial) ==
    /\ LET next == UpdatePayloadUpdater(payloadRegistry, nodeId, handleId, partial)
       IN  payloadRegistry' = next.map /\ changed' = next.fresh
    /\ Ran(Call("updatePayload", nodeId, handleId, partial, UNDEF))
    /\ UNCHANGED <<psdRegistry, templateRegistry, resolvedRegistry, reviewerRegistry,
                   previewRegistry, analysisRegistry, knowledgeRegistry, globalVersion>>
    /\ UNCHANGED harnessVars

\* a removal written before the preview registry existed: it leaves that one
unregisterNodeKeepsPreview(nodeId) ==
    /\ globalVersion < MaxVersion
    /\ psdRegistry' = Without(psdRegistry, nodeId)
    /\ templateRegistry' = Without(templateRegistry, nodeId)
    /\ resolvedRegistry' = Without(resolvedRegistry, nodeId)
    /\ payloadRegistry' = Without(payloadRegistry, nodeId)
    /\ reviewerRegistry' = Without(reviewerRegistry, nodeId)
    /\ analysisRegistry' = Without(analysisRegistry, nodeId)
    /\ knowledgeRegistry' =
           IF nodeId \notin DOMAIN knowledgeRegistry THEN knowledgeRegistry
           ELSE Without(knowledgeRegistry, nodeId)
    /\ previewRegistry' = previewRegistry
    /\ globalVersion' = globalVersion + 1
    /\ changed' = TRUE
    /\ Ran(Call("unregisterNode", nodeId, "", EmptyObj, UNDEF))
    /\ UNCHANGED harnessVars

unregisterNode(nodeId) ==
    /\ globalVersion < MaxVersion
    /\ psdRegistry' = Without(psdRegistry, nodeId)
    /\ templateRegistry' = Without(templateRegistry, nodeId)
    /\ resolvedRegistry' = Without(resolvedRegistry, nodeId)
    /\ payloadRegistry' = Without(payloadRegistry, nodeId)
    /\ reviewerRegistry' = Without(reviewerRegistry, nodeId)
    /\ analysisRegistry' = Without(analysisRegistry, nodeId)
    /\ knowledgeRegistry' =
           IF nodeId \notin DOMAIN knowledgeRegistry THEN knowledgeRegistry
           ELSE Without(knowledgeRegistry, nodeId)
    /\ previewRegistry' =
           IF nodeId \notin DOMAIN previewRegistry THEN previewRegistry
           ELSE Without(previewRegistry, nodeId)
    /\ globalVersion' = globalVersion + 1
    /\ changed' = TRUE
    /\ Ran(Call("unregisterNode", nodeId, "", EmptyObj, UNDEF))
    /\ UNCHANGED harnessVars

\* a call that also passes a url (registerPreviewPayload, updatePreview)
CallUrl(op, nodeId, handleId, payload, url) ==
    [op |-> op, nodeId |-> nodeId, handleId |-> handleId, payload |-> payload,
     masterOverride |-> UNDEF, url |-> url]

\* prev[nodeId], optional, of a registry keyed by node alone
Entry(reg, nodeId) == IF nodeId \in DOMAIN reg THEN Some(reg[nodeId]) ELSE UNDEF

\* { ...prev, [nodeId]: v }
StoreEntry(reg, nodeId, v) ==
    [n \in DOMAIN reg \cup {nodeId} |-> IF n = nodeId THEN v ELSE reg[n]]

\* JSON.stringify(stored) === JSON.stringify(value); JSON.stringify(undefined)
\* is undefined and equals no text.  The same object has the same text, so the
\* identity test ahead of it is covered by this one.
SameText(stored, value) ==
    stored # UNDEF /\ JSONstringify(stored[1]) = JSONstringify(value)

\* a registerPsd that also signals a refresh
registerPsdRefreshing(nodeId, psd) ==
    /\ psdRegistry' = StoreEntry(psdRegistry, nodeId, psd)
    /\ globalVersion' = IF globalVersion < MaxVersion THEN globalVersion + 1
                        ELSE globalVersion
    /\ changed' = TRUE
    /\ Ran(Call("registerPsd", nodeId, "", psd, UNDEF))
    /\ UNCHANGED <<templateRegistry, resolvedRegistry, payloadRegistry, reviewerRegistry,
                   previewRegistry, analysisRegistry, knowledgeRegistry>>
    /\ UNCHANGED harnessVars

registerPsd(nodeId, psd) ==
    /\ psdRegistry' = StoreEntry(psdRegistry, nodeId, psd)
    /\ changed' = TRUE
    /\ Ran(Call("registerPsd", nodeId, "", psd, UNDEF))
    /\ UNCHANGED <<templateRegistry, resolvedRegistry, payloadRegistry, reviewerRegistry,
                   previewRegistry, analysisRegistry, knowledgeRegistry, globalVersion>>
    /\ UNCHANGED harnessVars

registerTemplate(nodeId, template) ==
    /\ LET same == SameText(Entry(templateRegistry, nodeId), template)
       IN  /\ templateRegistry' =
                  IF same THEN templateRegistry
                  ELSE StoreEntry(templateRegistry, nodeId, template)
           /\ changed' = ~same
    /\ Ran(Call("registerTemplate", nodeId, "", template, UNDEF))
    /\ UNCHANGED <<psdRegistry, resolvedRegistry, payloadRegistry, reviewerRegistry,
                   previewRegistry, analysisRegistry, knowledgeRegistry, globalVersion>>
    /\ UNCHANGED harnessVars

\* registerResolved: context.generationAllowed === false ||
\* context.aiStrategy?.generationAllowed === false
\* a gate that looks at the context's own flag only
isGenerationDisallowedTopLevel(context) == Get(context, "generationAllowed") = F


isGenerationDisallowed(context) ==
    \/ Get(context, "generationAllowed") = F
    \/ GetOpt(Get(context, "aiStrategy"), "generationAllowed") = F

\* registerResolved: the context that is stored (ghost flushing)
sanitizedContext(context) ==
    LET ai == Get(context, "aiStrategy")
    IN  IF isGenerationDisallowed(context)
        THEN PutAll(context,
                << <<"previewUrl", UNDEF>>,
                   <<"aiStrategy",
                     IF ai # UNDEF
                     THEN Some(PutAll(ai[1], << <<"generativePrompt", Some("")>>,
                                                <<"generationAllowed", F>> >>))
                     ELSE UNDEF>>,
                   <<"generationAllowed", F>> >>)
        ELSE IF GetOpt(ai, "method") = Some("GEOMETRIC")
        THEN PutAll(context,
                << <<"previewUrl", UNDEF>>,
                   <<"aiStrategy", Some(Put(ai[1], "generativePrompt", Some("")))>> >>)
        ELSE context

registerResolved(nodeId, handleId, context) ==
    /\ LET stored == sanitizedContext(context)
           same   == SameText(Lookup(resolvedRegistry, nodeId, handleId), stored)
       IN  /\ resolvedRegistry' =
                  IF same THEN resolvedRegistry
                  ELSE Store(resolvedRegistry, nodeId, handleId, stored)
           /\ changed' = ~same
    /\ Ran(Call("registerResolved", nodeId, handleId, context, UNDEF))
    /\ UNCHANGED <<psdRegistry, templateRegistry, payloadRegistry, reviewerRegistry,
                   previewRegistry, analysisRegistry, knowledgeRegistry, globalVersion>>
    /\ UNCHANGED harnessVars

\* a proxy that puts the render into the payload: { ...payload, previewUrl:
\* renderUrl, isPolished: true }
registerPreviewPayloadWithRender(nodeId, handleId, payload, renderUrl) ==
    /\ LET sameUrl == Lookup(previewRegistry, nodeId, handleId) = Some(renderUrl)
           next    == RegisterReviewerUpdater(reviewerRegistry, nodeId, handleId,
                                              Put(payload, "previewUrl", Some(renderUrl)))
       IN  /\ previewRegistry' =
                  IF sameUrl THEN previewRegistry
                  ELSE Store(previewRegistry, nodeId, handleId, renderUrl)
           /\ reviewerRegistry' = next.map
           /\ changed' = (~sameUrl \/ next.fresh)
    /\ Ran(CallUrl("registerPreviewPayload", nodeId, handleId, payload, renderUrl))
    /\ UNCHANGED <<psdRegistry, templateRegistry, resolvedRegistry, payloadRegistry,
                   analysisRegistry, knowledgeRegistry, globalVersion>>
    /\ UNCHANGED harnessVars

\* registerPreviewPayload: the render goes to the preview registry, the payload
\* (polished, reconciled) to the reviewer registry
registerPreviewPayload(nodeId, handleId, payload, renderUrl) ==
    /\ LET sameUrl == Lookup(previewRegistry, nodeId, handleId) = Some(renderUrl)
           next    == RegisterReviewerUpdater(reviewerRegistry, nodeId, handleId, payload)
       IN  /\ previewRegistry' =
                  IF sameUrl THEN previewRegistry
                  ELSE Store(previewRegistry, nodeId, handleId, renderUrl)
           /\ reviewerRegistry' = next.map
           /\ changed' = (~sameUrl \/ next.fresh)
    /\ Ran(CallUrl("registerPreviewPayload", nodeId, handleId, payload, renderUrl))
    /\ UNCHANGED <<psdRegistry, templateRegistry, resolvedRegistry, payloadRegistry,
                   analysisRegistry, knowledgeRegistry, globalVersion>>
    /\ UNCHANGED harnessVars

registerAnalysis(nodeId, handleId, strategy) ==
    /\ LET same == SameText(Lookup(analysisRegistry, nodeId, handleId), strategy)
       IN  /\ analysisRegistry' =
                  IF same THEN analysisRegistry
                  ELSE Store(analysisRegistry, nodeId, handleId, strategy)
           /\ changed' = ~same
    /\ Ran(Call("registerAnalysis", nodeId, handleId, strategy, UNDEF))
    /\ UNCHANGED <<psdRegistry, templateRegistry, resolvedRegistry, payloadRegistry,
                   reviewerRegistry, previewRegistry, knowledgeRegistry, globalVersion>>
    /\ UNCHANGED harnessVars

registerKnowledge(nodeId, context) ==
    /\ LET same == SameText(Entry(knowledgeRegistry, nodeId), context)
       IN  /\ knowledgeRegistry' =
                  IF same THEN knowledgeRegistry
                  ELSE StoreEntry(knowledgeRegistry, nodeId, context)
           /\ changed' = ~same
    /\ Ran(Call("registerKnowledge", nodeId, "", context, UNDEF))
    /\ UNCHANGED <<psdRegistry, templateRegistry, resolvedRegistry, payloadRegistry,
                   reviewerRegistry, previewRegistry, analysisRegistry, globalVersion>>
    /\ UNCHANGED harnessVars

\* the state updater of updatePreview: the stored payload with previewUrl set
\* an updater that writes the url into a slot that holds nothing
UpdatePreviewUpdaterCreating(prev, nodeId, handleId, url) ==
    LET current == Lookup(prev, nodeId, handleId)
    IN  IF GetOpt(current, "previewUrl") = Some(url)
        THEN Kept(prev)
        ELSE Replaced(Store(prev, nodeId, handleId,
                 Put(IF current = UNDEF THEN EmptyObj ELSE current[1],
                     "previewUrl", Some(url))))


UpdatePreviewUpdater(prev, nodeId, handleId, url) ==
    LET current == Lookup(prev, nodeId, handleId)
    IN  IF current = UNDEF \/ Get(current[1], "previewUrl") = Some(url)
        THEN Kept(prev)
        ELSE Replaced(Store(prev, nodeId, handleId, Put(current[1], "previewUrl", Some(url))))

updatePreview(nodeId, handleId, url) ==
    /\ LET next == UpdatePreviewUpdater(payloadRegistry, nodeId, handleId, url)
       IN  payloadRegistry' = next.map /\ changed' = next.fresh
    /\ Ran(CallUrl("updatePreview", nodeId, handleId, EmptyObj, url))
    /\ UNCHANGED <<psdRegistry, templateRegistry, resolvedRegistry, reviewerRegistry,
                   previewRegistry, analysisRegistry, knowledgeRegistry, globalVersion>>
    /\ UNCHANGED harnessVars

triggerGlobalRefresh ==
    /\ globalVersion < MaxVersion
    /\ globalVersion' = globalVersion + 1
    /\ changed' = TRUE
    /\ Ran(Call("triggerGlobalRefresh", "", "", EmptyObj, UNDEF))
    /\ UNCHANGED <<psdRegistry, templateRegistry, resolvedRegistry, payloadRegistry,
                   reviewerRegistry, previewRegistry, analysisRegistry, knowledgeRegistry>>
    /\ UNCHANGED harnessVars

Next ==
    \/ \E n \in Nodes, h \in Handles, p \in WritePayloads :
           registerPayload(n, h, p, UNDEF)
    \/ \E n \in Nodes, h \in Handles, p \in GatedPayloads :
           registerPayload(n, h, p, F)
    \/ \E n \in Nodes, h \in Handles, p \in ReviewerPayloads :
           registerReviewerPayload(n, h, p)
    \/ \E n \in Nodes, h \in Handles, p \in Partials :
           updatePayload(n, h, p)

\* Node removal is not a step of Spec: its runs are the runs of writes between
\* two removals.
Spec == Init /\ [][Next]_vars

\* The payload registry alone: full and partial writes to its slots.
NextPayload ==
    \/ \E n \in Nodes, h \in Handles, p \in WritePayloads :
           registerPayload(n, h, p, UNDEF)
    \/ \E n \in Nodes, h \in Handles, p \in GatedPayloads :
           registerPayload(n, h, p, F)
    \/ \E n \in Nodes, h \in Handles, p \in Partials :
           updatePayload(n, h, p)

SpecPayload == Init /\ [][NextPayload]_vars

----------------------------------------------------------------------------
(* Producers that fill the registries and are removed *)

Producers == {"n1", "n2"}

\* the producer that writes to every registry
FullProducer == "n1"

Port == "h1"

\* what the metadata registries are given
PsdDocument == MkPayload([name |-> Some("doc.psd")])

TemplateMeta == MkPayload([name |-> Some("template")])

ResolvedContext ==
    MkPayload([layers |-> Some(BaseLayers), previewUrl |-> Some("G"),
               aiStrategy |-> Some(MkPayload([method |-> Some("GENERATIVE"),
                                              generativePrompt |-> Some("sky")]))])

AnalysisStrategy ==
    MkPayload([method |-> Some("GEOMETRIC"), generativePrompt |-> Some("")])

KnowledgeRules == MkPayload([name |-> Some("rules")])

RenderUrl == "R"

NextRemoval ==
    \/ \E n \in Producers : registerPsd(n, PsdDocument)
    \/ registerTemplate(FullProducer, TemplateMeta)
    \/ registerResolved(FullProducer, Port, ResolvedContext)
    \/ registerPayload(FullProducer, Port, SynthesisDone(Some(1)), UNDEF)
    \/ registerReviewerPayload(FullProducer, Port, SynthesisDone(Some(1)))
    \/ registerPreviewPayload(FullProducer, Port, SynthesisDone(Some(1)), RenderUrl)
    \/ registerAnalysis(FullProducer, Port, AnalysisStrategy)
    \/ \E n \in Producers : registerKnowledge(n, KnowledgeRules)
    \/ \E n \in Producers : unregisterNode(n)

SpecRemoval == Init /\ [][NextRemoval]_vars

----------------------------------------------------------------------------
(* Every operation of the store, with removals and refreshes *)

\* the producer that only loads a document and publishes rules
SideProducer == "n2"

NextLifecycle ==
    \/ registerPsd(SideProducer, PsdDocument)
    \/ registerKnowledge(SideProducer, KnowledgeRules)
    \/ registerTemplate(FullProducer, TemplateMeta)
    \/ registerResolved(FullProducer, Port, ResolvedContext)
    \/ registerAnalysis(FullProducer, Port, AnalysisStrategy)
    \/ \E p \in {SynthesisDone(Some(1)), LateResult(UNDEF)} :
           registerPayload(FullProducer, Port, p, UNDEF)
    \/ registerReviewerPayload(FullProducer, Port, SynthesisDone(Some(1)))
    \/ registerPreviewPayload(FullProducer, Port, SynthesisDone(Some(1)), RenderUrl)
    \/ updatePayload(FullProducer, Port, MkPayload([isConfirmed |-> T]))
    \/ updatePreview(FullProducer, Port, RenderUrl)
    \/ \E n \in Producers : unregisterNode(n)
    \/ triggerGlobalRefresh

SpecLifecycle == Init /\ [][NextLifecycle]_vars

----------------------------------------------------------------------------
(* The metadata registries: templates, analysis strategies, knowledge *)

\* a metadata value built by an object literal that lists name before method
NameFirst(name, method) == PutAll(EmptyObj, << <<"name", name>>, <<"method", method>> >>)

\* the same, by a literal that lists method before name
MethodFirst(name, method) == PutAll(EmptyObj, << <<"method", method>>, <<"name", name>> >>)

\* two values with the same fields in both key orders, and one with another field
MetadataValues ==
    { NameFirst(Some("grid"), Some("GEOMETRIC")),
      MethodFirst(Some("grid"), Some("GEOMETRIC")),
      NameFirst(Some("grid"), Some("GENERATIVE")) }

NextMetadata ==
    \/ \E v \in MetadataValues : registerTemplate(FullProducer, v)
    \/ \E v \in MetadataValues : registerAnalysis(FullProducer, Port, v)
    \/ \E v \in MetadataValues : registerKnowledge(FullProducer, v)

SpecMetadata == Init /\ [][NextMetadata]_vars

----------------------------------------------------------------------------
(* The reviewer registry and its two writers *)

\* what reviewers and preview proxies hand in: isPolished absent, false or
\* true, on payloads that meet each rule of the reconciler
PolishedWrites ==
    { SynthesisStart(Some(1)),
      SynthesisStart(Some(MaxGen)),
      SynthesisDone(Some(1)),
      Put(LateResult(UNDEF), "isPolished", F),
      Put(SynthesisDone(Some(MaxGen)), "isPolished", F),
      Put(LateResult(Some(1)), "isPolished", F),
      Put(IdleSignal(UNDEF), "isPolished", T),
      Put(LateResult(UNDEF), "generationAllowed", F),
      ForcedFill(Some(1)) }

\* renders of the preview node; 'A' is also the previewUrl of a completion
RenderUrls == {"R", "A"}

NextReviewer ==
    \/ \E p \in PolishedWrites : registerReviewerPayload(FullProducer, Port, p)
    \/ \E p \in PolishedWrites, url \in RenderUrls :
           registerPreviewPayload(FullProducer, Port, p, url)

SpecReviewer == Init /\ [][NextReviewer]_vars

----------------------------------------------------------------------------
(* One payload slot under full writes, partial writes and preview updates *)

\* a completion with generation switched off for the instance
GenerationOff(g) == Put(SynthesisDone(g), "generationAllowed", F)

SlotWrites ==
    { SynthesisStart(Some(1)), SynthesisDone(Some(1)), LateResult(UNDEF),
      GenerationOff(Some(MaxGen)) }

\* partial artifacts: with a previewUrl, with a sourceContainer, with neither
\* (the last two without and with an empty previewUrl), and with a previewUrl
\* and the generation gate closed
SlotPartials ==
    { MkPayload([previewUrl |-> Some("P")]),
      MkPayload([status |-> Some("idle"), sourceContainer |-> Some("c1")]),
      MkPayload([isConfirmed |-> T]),
      MkPayload([previewUrl |-> Some(""), isConfirmed |-> F]),
      MkPayload([previewUrl |-> Some("P"), generationAllowed |-> F]) }

PreviewUrls == {"P"}

NextPartial ==
    \/ \E p \in SlotWrites : registerPayload(FullProducer, Port, p, UNDEF)
    \/ \E p \in SlotPartials : updatePayload(FullProducer, Port, p)
    \/ \E url \in PreviewUrls : updatePreview(FullProducer, Port, url)

SpecPartial == Init /\ [][NextPartial]_vars

----------------------------------------------------------------------------
(* Drafts and confirmations on one payload slot and one reviewer slot *)

\* p marked as a draft (isTransient) and as confirmed, as the producer says
Flagged(p, transient, confirmed) ==
    PutAll(p, << <<"isTransient", transient>>, <<"isConfirmed", confirmed>> >>)

\* artifacts whose flags meet each rule: a synthesis start, a completion and a
\* forced fill that are each draft and confirmed at once, a confirmed
\* completion, a draft layout update, and an idle reset
DraftWrites ==
    { Flagged(SynthesisStart(Some(1)), T, T),
      Flagged(SynthesisDone(Some(1)), T, T),
      Flagged(ForcedFill(Some(1)), T, T),
      Flagged(SynthesisDone(Some(MaxGen)), F, T),
      Flagged(LateResult(UNDEF), T, UNDEF),
      IdleSignal(UNDEF) }

\* partial artifacts that set one flag, or both on an identified artifact
DraftPartials ==
    { MkPayload([isTransient |-> T]),
      MkPayload([isConfirmed |-> T]),
      MkPayload([previewUrl |-> Some("P"), isTransient |-> T, isConfirmed |-> T]) }

NextDrafts ==
    \/ \E p \in DraftWrites : registerPayload(FullProducer, Port, p, UNDEF)
    \/ \E p \in DraftPartials : updatePayload(FullProducer, Port, p)
    \/ \E p \in DraftWrites : registerReviewerPayload(FullProducer, Port, p)
    \/ \E p \in DraftWrites : registerPreviewPayload(FullProducer, Port, p, RenderUrl)
    \/ \E url \in PreviewUrls : updatePreview(FullProducer, Port, url)

SpecDrafts == Init /\ [][NextDrafts]_vars

----------------------------------------------------------------------------
(* One payload slot written under an open, a closed and no master gate *)

\* artifacts with generationAllowed true, absent and false: a confirmed
\* completion with additive layers, a forced synthesizing draft, a completion
\* that is already switched off, and the plain signals of a producer
GateWrites ==
    { MkPayload([status |-> Some("success"), layers |-> Some(MixedLayers),
                 generationId |-> Some(MaxGen), previewUrl |-> Some("A"),
                 isConfirmed |-> T, generationAllowed |-> T]),
      MkPayload([status |-> Some("loading"), layers |-> Some(EdgeLayers),
                 generationId |-> Some(1), isSynthesizing |-> T, isTransient |-> T,
                 isMandatory |-> T, requiresGeneration |-> T]),
      MkPayload([status |-> Some("success"), layers |-> Some(MixedLayers),
                 previewUrl |-> Some("A"), generationAllowed |-> F,
                 requiresGeneration |-> T]),
      LateResult(Some(1)), SynthesisStart(Some(MaxGen)), SynthesisDone(Some(1)),
      IdleSignal(UNDEF) }

\* masterOverride?: boolean
MasterOverrides == {UNDEF, T, F}

\* partial artifacts that say nothing of generationAllowed: a preview, the
\* start of a synthesis, a confirmation that asks for generation, and a layer
\* list with a preview
GatePartials ==
    { MkPayload([previewUrl |-> Some("P")]),
      MkPayload([isSynthesizing |-> T, isTransient |-> T, generationId |-> Some(MaxGen)]),
      MkPayload([isConfirmed |-> T, requiresGeneration |-> T]),
      MkPayload([layers |-> Some(EdgeLayers), previewUrl |-> Some("P")]) }

NextGate ==
    \/ \E p \in GateWrites, m \in MasterOverrides :
           registerPayload(FullProducer, Port, p, m)
    \/ \E q \in GatePartials : updatePayload(FullProducer, Port, q)

SpecGate == Init /\ [][NextGate]_vars


----------------------------------------------------------------------------
(* Resolved contexts of every kind registered at two slots *)

\* aiStrategy: { method, generativePrompt, generationAllowed? }
Strategy(method, prompt, allowed) ==
    MkPayload([method |-> Some(method), generativePrompt |-> Some(prompt),
               generationAllowed |-> allowed])

\* contexts: generative and allowed; switched off by their own flag, by the
\* strategy's flag, and without a strategy; and geometric with a stale
\* prompt and preview, and without them
ResolvedContexts ==
    { ResolvedContext,
      MkPayload([layers |-> Some(BaseLayers), previewUrl |-> Some("G"),
                 generationAllowed |-> F,
                 aiStrategy |-> Some(Strategy("GENERATIVE", "sky", T))]),
      MkPayload([layers |-> Some(BaseLayers), previewUrl |-> Some("G"),
                 generationAllowed |-> T,
                 aiStrategy |-> Some(Strategy("GENERATIVE", "sky", F))]),
      MkPayload([layers |-> Some(BaseLayers), previewUrl |-> Some("G"),
                 generationAllowed |-> F]),
      MkPayload([layers |-> Some(BaseLayers), previewUrl |-> Some("G"),
                 generationAllowed |-> T,
                 aiStrategy |-> Some(Strategy("GEOMETRIC", "sky", UNDEF))]),
      MkPayload([layers |-> Some(BaseLayers),
                 aiStrategy |-> Some(Strategy("GEOMETRIC", "", T))]) }

NextResolved ==
    \E n \in Producers, c \in ResolvedContexts : registerResolved(n, Port, c)

SpecResolved == Init /\ [][NextResolved]_vars


----------------------------------------------------------------------------
(* Several slots: two ports of one producer and a port of another *)

Slots == {<<"n1", "h1">>, <<"n1", "h2">>, <<"n2", "h1">>}

\* a write to a slot: the operation and the payload or partial it is given
SlotOps ==
    { [op |-> "registerPayload", payload |-> SynthesisDone(Some(1))],
      [op |-> "updatePayload",   payload |-> MkPayload([previewUrl |-> Some("P")])],
      [op |-> "updatePayload",   payload |-> MkPayload([isConfirmed |-> T])] }

\* the payload registry after write w to slot s
ApplyWrite(reg, s, w) ==
    IF w.op = "registerPayload"
    THEN RegisterPayloadUpdater(reg, s[1], s[2], w.payload, UNDEF).map
    ELSE UpdatePayloadUpdater(reg, s[1], s[2], w.payload).map

NextSlots ==
    \/ \E s \in Slots, w \in SlotOps :
           /\ w.op = "registerPayload"
           /\ registerPayload(s[1], s[2], w.payload, UNDEF)
    \/ \E s \in Slots, w \in SlotOps :
           /\ w.op = "updatePayload"
           /\ updatePayload(s[1], s[2], w.payload)
    \/ registerReviewerPayload(FullProducer, Port, SynthesisDone(Some(1)))

SpecSlots == Init /\ [][NextSlots]_vars

----------------------------------------------------------------------------
(* Previews written into several slots *)

\* completions without and with a preview of their own
PreviewWrites ==
    { SynthesisDone(Some(1)), Put(SynthesisDone(Some(1)), "previewUrl", Some("P")) }

\* url: string
SlotUrls == {"P", "R"}

NextPreview ==
    \/ \E s \in Slots, p \in PreviewWrites : registerPayload(s[1], s[2], p, UNDEF)
    \/ \E s \in Slots, url \in SlotUrls : updatePreview(s[1], s[2], url)
    \/ registerReviewerPayload(FullProducer, Port, SynthesisDone(Some(1)))

SpecPreview == Init /\ [][NextPreview]_vars

----------------------------------------------------------------------------
(* applyOverridesToPayload (src/components/KnowledgeInspectorNode.tsx) *)

\* Numbers are exact fractions [n, d] in lowest terms with d > 0; the doubles of
\* the source agree with them on the values used here (100 * 0.9 is 90).
Abs(i) == IF i < 0 THEN -i ELSE i

RECURSIVE GCD(_, _)
GCD(a, b) == IF b = 0 THEN a ELSE GCD(b, a % b)

Rat(n, d) ==
    LET g == GCD(Abs(n), d)
    IN  IF n = 0 THEN [n |-> 0, d |-> 1] ELSE [n |-> n \div g, d |-> d \div g]

Num(i) == Rat(i, 1)

RAdd(a, b) == Rat(a.n * b.d + b.n * a.d, a.d * b.d)

RMul(a, b) == Rat(a.n * b.n, a.d * b.d)

\* a || b on optional numbers (0 and undefined are falsy), b a number
OrRat(a, b) == IF a # UNDEF /\ a[1].n # 0 THEN a[1] ELSE b

Coords(x, y, w, h) == [x |-> Num(x), y |-> Num(y), w |-> Num(w), h |-> Num(h)]

Transform(scaleX, scaleY, rotation) ==
    [scaleX |-> scaleX, scaleY |-> scaleY, offsetX |-> Num(0), offsetY |-> Num(0),
     rotation |-> rotation]

\* a layer with geometry; children is optional (a leaf has no children key)
GeoLayer(id, type, coords, transform, children) ==
    [id |-> id, type |-> type, coords |-> coords, transform |-> transform,
     children |-> children]

Override(layerId, xOffset, yOffset, individualScale, rotation) ==
    [layerId |-> layerId, xOffset |-> Num(xOffset), yOffset |-> Num(yOffset),
     individualScale |-> individualScale, rotation |-> rotation]

\* overrides.find(o => o.layerId === layer.id): the first in list order, optional
\* the last override that names the layer, not the first
FindOverrideLast(overrides, id) ==
    LET hits == {i \in DOMAIN overrides : overrides[i].layerId = id}
    IN  IF hits = {} THEN UNDEF
        ELSE Some(overrides[CHOOSE i \in hits : \A j \in hits : i >= j])


FindOverride(overrides, id) ==
    LET hits == {i \in DOMAIN overrides : overrides[i].layerId = id}
    IN  IF hits = {} THEN UNDEF
        ELSE Some(overrides[CHOOSE i \in hits : \A j \in hits : i <= j])

\* a scale that is always 1: the override's individualScale is not read
scaleMultOne(override) == Num(1)

\* const scaleMult = override.individualScale || 1
scaleMult(override) == OrRat(override.individualScale, Num(1))

\* the layer after the geometric nudges of override
Nudged(layer, override) ==
    LET newX == RAdd(layer.coords.x, override.xOffset)
        newY == RAdd(layer.coords.y, override.yOffset)
        s    == scaleMult(override)
    IN  [layer EXCEPT
            !.coords = [layer.coords EXCEPT
                           !.x = newX, !.y = newY,
                           !.w = RMul(layer.coords.w, s),
                           !.h = RMul(layer.coords.h, s)],
            !.transform = [layer.transform EXCEPT
                           !.scaleX = RMul(layer.transform.scaleX, s),
                           !.scaleY = RMul(layer.transform.scaleY, s),
                           !.offsetX = newX, !.offsetY = newY,
                           !.rotation = Some(RAdd(OrRat(layer.transform.rotation, Num(0)),
                                                  OrRat(override.rotation, Num(0))))]]

\* one level of the walk: matching layers nudged, children left as they are
deepUpdateTopLevel(layers, overrides) ==
    [i \in DOMAIN layers |->
        LET override == FindOverride(overrides, layers[i].id)
        IN  IF override # UNDEF THEN Nudged(layers[i], override[1]) ELSE layers[i]]

\* deepUpdate: layers.map over the tree
RECURSIVE deepUpdate(_, _)
deepUpdate(layers, overrides) ==
    [i \in DOMAIN layers |->
        LET layer    == layers[i]
            override == FindOverride(overrides, layer.id)
            newLayer == IF override # UNDEF THEN Nudged(layer, override[1]) ELSE layer
        IN  IF layer.children # UNDEF
            THEN [newLayer EXCEPT
                     !.children = Some(deepUpdate(layer.children[1], overrides))]
            ELSE newLayer]

\* { ...payload, layers: deepUpdate(payload.layers), isPolished: true }
applyOverridesToPayload(payload, overrides) ==
    PutAll(payload,
        << <<"layers", Some(deepUpdate(Get(payload, "layers")[1], overrides))>>,
           <<"isPolished", T>> >>)

\* the spec's layer at (10, 10, 100, 50), unrotated and unscaled
LeafA ==
    GeoLayer("a", "pixel", Coords(10, 10, 100, 50), Transform(Num(1), Num(1), UNDEF), UNDEF)

\* a rotated, half-scale layer with an empty children list
LeafB ==
    GeoLayer("b", "pixel", Coords(0, 20, 40, 30),
             Transform(Rat(1, 2), Rat(1, 2), Some(Num(30))), Some(<<>>))

LeafC ==
    GeoLayer("c", "generative", Coords(7, 7, 20, 20), Transform(Num(1), Num(2), Some(Num(0))), UNDEF)

GroupOf(id, children) ==
    GeoLayer(id, "group", Coords(0, 0, 200, 100), Transform(Num(1), Num(1), UNDEF),
             Some(children))

\* layer trees: a single layer, a group with two children beside a layer, and
\* a layer three levels down
LayerTrees ==
    { << LeafA >>,
      << GroupOf("g", << LeafA, LeafB >>), LeafC >>,
      << GroupOf("g", << GroupOf("h", << LeafC, LeafA >>) >>), LeafB >> }

\* the spec's override, a rotation without scaling (scale 0), a scaled group,
\* an override without individualScale, and one that names no layer
OverridePool ==
    { Override("a", 5, -5, Some(Rat(9, 10)), UNDEF),
      Override("a", 0, 3, Some(Num(0)), Some(Num(15))),
      Override("g", 1, 1, Some(Num(2)), Some(Num(0))),
      Override("b", -2, 0, UNDEF, Some(Num(-30))),
      Override("zz", 9, 9, Some(Num(3)), Some(Num(9))) }

MaxOverrides == 2

OverrideLists ==
    UNION { [1..k -> OverridePool] : k \in 0..MaxOverrides }

OverridePayloads ==
    { MkPayload([status |-> Some("success"), layers |-> Some(tree),
                 generationId |-> Some(1), previewUrl |-> Some("A")]) :
        tree \in LayerTrees }

InitOverrides ==
    /\ StoreInit
    /\ rIncoming = EmptyObj
    /\ rCurrent = UNDEF
    /\ rResolved = UNDEF
    /\ rAgain = UNDEF
    /\ oPayload \in OverridePayloads
    /\ oOverrides \in OverrideLists
    /\ oResult = UNDEF
    /\ hookContext = UNDEF
    /\ hookResult = [outcome |-> "none", value |-> UNDEF]
    /\ row = NoRow
    /\ scoper = NoScoper
    /\ audit = NoAudit

ApplyOverrides ==
    /\ oResult = UNDEF
    /\ oResult' = Some(applyOverridesToPayload(oPayload, oOverrides))
    /\ UNCHANGED <<oPayload, oOverrides, hookContext, hookResult, row, scoper, audit>>
    /\ UNCHANGED <<rIncoming, rCurrent, rResolved, rAgain>>
    /\ UNCHANGED storeVars

NextOverrides == ApplyOverrides

SpecOverrides == InitOverrides /\ [][NextOverrides]_vars

----------------------------------------------------------------------------
(* useProceduralStore: reading the store from a component *)

\* createContext(null): what useContext gives outside every provider
DefaultContext == UNDEF

\* the value the provider supplies: the registries and the version (the
\* operations, which are stable callbacks, are left out)
StoreValue ==
    [psdRegistry |-> psdRegistry, templateRegistry |-> templateRegistry,
     resolvedRegistry |-> resolvedRegistry, payloadRegistry |-> payloadRegistry,
     reviewerRegistry |-> reviewerRegistry, previewRegistry |-> previewRegistry,
     analysisRegistry |-> analysisRegistry, knowledgeRegistry |-> knowledgeRegistry,
     globalVersion |-> globalVersion]

\* useContext(ProceduralContext) in a component inside or outside the provider
useContext(insideProvider) ==
    IF insideProvider THEN Some(StoreValue) ELSE DefaultContext

\* a hook that falls back to an empty store instead of throwing
useProceduralStoreLenient(insideProvider) ==
    /\ hookContext' = useContext(insideProvider)
    /\ hookResult' = [outcome |-> "returned",
                      value |-> IF insideProvider THEN Some(StoreValue)
                                ELSE Some([StoreValue EXCEPT !.globalVersion = 0])]
    /\ UNCHANGED <<oPayload, oOverrides, oResult, row, scoper, audit>>
    /\ UNCHANGED <<rIncoming, rCurrent, rResolved, rAgain>>
    /\ UNCHANGED storeVars

useProceduralStore(insideProvider) ==
    /\ hookContext' = useContext(insideProvider)
    /\ hookResult' =
           IF useContext(insideProvider) = UNDEF
           THEN [outcome |-> "threw", value |-> UNDEF]
           ELSE [outcome |-> "returned", value |-> useContext(insideProvider)]
    /\ UNCHANGED <<oPayload, oOverrides, oResult, row, scoper, audit>>
    /\ UNCHANGED <<rIncoming, rCurrent, rResolved, rAgain>>
    /\ UNCHANGED storeVars

NextHook ==
    \/ \E n \in Producers : registerPsd(n, PsdDocument)
    \/ \E n \in Producers : registerKnowledge(n, KnowledgeRules)
    \/ triggerGlobalRefresh
    \/ \E insideProvider \in BOOLEAN : useProceduralStore(insideProvider)

SpecHook == Init /\ [][NextHook]_vars

----------------------------------------------------------------------------
(* ReviewerInstanceRow (src/components/KnowledgeInspectorNode.tsx): the     *)
(* effect that sends the row's payload to the store                         *)

\* `polished-out-${index}`
PolishedOut(index) == <<"polished-out-0", "polished-out-1">>[index + 1]

\* { ...payload } for a payload that is undefined: an object with no own keys
AbsentPayload == EmptyObj

\* the payload the effect registers: the overrides applied when there is a
\* strategy, else { ...incomingPayload, isPolished: false }
RowPayload(incomingPayload, reviewerStrategy) ==
    IF reviewerStrategy # UNDEF
    THEN applyOverridesToPayload(incomingPayload, reviewerStrategy[1].overrides)
    ELSE Put(incomingPayload, "isPolished", F)

\* the "Apply Overrides" effect, run when incomingPayload or reviewerStrategy
\* has changed; both are optional (null)
ApplyOverridesEffect(nodeId, index, incomingPayload, reviewerStrategy) ==
    /\ row # [incomingPayload |-> incomingPayload, reviewerStrategy |-> reviewerStrategy]
    /\ row' = [incomingPayload |-> incomingPayload, reviewerStrategy |-> reviewerStrategy]
    /\ IF incomingPayload = UNDEF
       THEN UNCHANGED storeVars
       ELSE LET finalPayload == RowPayload(incomingPayload[1], reviewerStrategy)
                next == RegisterReviewerUpdater(reviewerRegistry, nodeId,
                                                PolishedOut(index), finalPayload)
            IN  /\ reviewerRegistry' = next.map
                /\ changed' = next.fresh
                /\ Ran(Call("registerReviewerPayload", nodeId, PolishedOut(index),
                            finalPayload, UNDEF))
                /\ UNCHANGED <<psdRegistry, templateRegistry, resolvedRegistry,
                               payloadRegistry, previewRegistry, analysisRegistry,
                               knowledgeRegistry, globalVersion>>
    /\ UNCHANGED <<rIncoming, rCurrent, rResolved, rAgain,
                   oPayload, oOverrides, oResult, hookContext, hookResult,
                   scoper, audit>>

\* what the row is handed: no payload yet, or a payload from upstream
RowIncoming == {UNDEF} \cup {Some(p) : p \in OverridePayloads}

\* no audit yet, or an audit that moved and scaled layer 'a'
RowStrategies ==
    {UNDEF, Some([overrides |-> << Override("a", 5, -5, Some(Rat(9, 10)), UNDEF) >>])}

\* the row's effect, and the store's writers called with and without a payload
NextRow ==
    \/ \E p \in RowIncoming, s \in RowStrategies :
           ApplyOverridesEffect(FullProducer, 0, p, s)
    \/ \E p \in {AbsentPayload, SynthesisDone(Some(1))} :
           registerPayload(FullProducer, Port, p, UNDEF)
    \/ \E p \in {AbsentPayload, SynthesisDone(Some(1))} :
           registerReviewerPayload(FullProducer, PolishedOut(0), p)

SpecRow == Init /\ [][NextRow]_vars

----------------------------------------------------------------------------
(* ReviewerInstanceRow as a whole: the parent's props, the audit, and the two *)
(* effects of a commit                                                        *)

MaxChat == 2

\* what getIncomingPayload(index) returns: a payload of upstream generation g
UpstreamPayload(g) ==
    MkPayload([status |-> Some("success"), layers |-> Some(<< LeafA >>),
               generationId |-> g, previewUrl |-> Some("A")])

\* no edge or no payload yet (null), and payloads with and without an id
AuditIncoming == {UNDEF} \cup {Some(UpstreamPayload(g)) : g \in {UNDEF} \cup GenIds}

\* newStrategy = { CARO_Audit, overrides }, with the generation of the
\* payload handleReview had read when it started
AuditStrategy(g) ==
    [overrides |-> << Override("a", 5, -5, Some(Rat(9, 10)), UNDEF) >>,
     auditedGeneration |-> g]

\* getIncomingPayload(index) changes: an upstream write, a new or removed edge
Upstream(p) ==
    /\ p # audit.incomingPayload
    /\ audit.state.chatHistory < MaxChat
    /\ audit' = [audit EXCEPT !.incomingPayload = p]
    /\ UNCHANGED <<oPayload, oOverrides, oResult, hookContext, hookResult, row, scoper>>
    /\ UNCHANGED <<rIncoming, rCurrent, rResolved, rAgain>>
    /\ UNCHANGED storeVars

\* handleReview up to its first await: the payload is read once
handleReviewStart ==
    /\ audit.rendered # UNDEF
    /\ audit.incomingPayload # UNDEF
    /\ audit.reviewing = UNDEF
    /\ audit.state.chatHistory < MaxChat
    /\ audit' = [audit EXCEPT
                    !.reviewing = Some(Get(audit.incomingPayload[1], "generationId"))]
    /\ UNCHANGED <<oPayload, oOverrides, oResult, hookContext, hookResult, row, scoper>>
    /\ UNCHANGED <<rIncoming, rCurrent, rResolved, rAgain>>
    /\ UNCHANGED storeVars

\* handleReview after the model answered: setNodes stores the new strategy
\* and appends the audit to the chat
handleReviewDone ==
    /\ audit.reviewing # UNDEF
    /\ audit' = [audit EXCEPT
                    !.reviewing = UNDEF,
                    !.state = [chatHistory |-> audit.state.chatHistory + 1,
                               reviewerStrategy |->
                                   Some(AuditStrategy(audit.reviewing[1]))]]
    /\ UNCHANGED <<oPayload, oOverrides, oResult, hookContext, hookResult, row, scoper>>
    /\ UNCHANGED <<rIncoming, rCurrent, rResolved, rAgain>>
    /\ UNCHANGED storeVars

\* handleReview when the audit throws: catch logs, nothing is stored
handleReviewFailed ==
    /\ audit.reviewing # UNDEF
    /\ audit' = [audit EXCEPT !.reviewing = UNDEF]
    /\ UNCHANGED <<oPayload, oOverrides, oResult, hookContext, hookResult, row, scoper>>
    /\ UNCHANGED <<rIncoming, rCurrent, rResolved, rAgain>>
    /\ UNCHANGED storeVars

\* incomingPayload?.generationId
GenerationOf(incomingPayload) == GetOpt(incomingPayload, "generationId")

\* the props of a render: what the effects of its commit close over
Props == [incomingPayload |-> audit.incomingPayload, state |-> audit.state]

\* the "stale guard & audit reset" effect runs on mount and when
\* incomingPayload?.generationId or state.chatHistory changed
StaleGuardRuns ==
    \/ audit.rendered = UNDEF
    \/ GenerationOf(audit.rendered[1].incomingPayload) # GenerationOf(Props.incomingPayload)
    \/ audit.rendered[1].state.chatHistory # Props.state.chatHistory

\* the "apply overrides" effect runs on mount and when incomingPayload or
\* state.reviewerStrategy changed
ApplyOverridesRuns ==
    \/ audit.rendered = UNDEF
    \/ audit.rendered[1].incomingPayload # Props.incomingPayload
    \/ audit.rendered[1].state.reviewerStrategy # Props.state.reviewerStrategy

\* the stale guard initializes the ref
GuardInitializes ==
    /\ Props.incomingPayload # UNDEF
    /\ audit.lastProcessedGenerationId = UNDEF
    /\ GenerationOf(Props.incomingPayload) # UNDEF

\* the stale guard finds the audit stale: onUpdateState(index, {reviewerStrategy:
\* null, chatHistory: [...state.chatHistory, sysMsg]}) and the ref is updated
GuardResets ==
    /\ Props.incomingPayload # UNDEF
    /\ audit.lastProcessedGenerationId # UNDEF
    /\ GenerationOf(Props.incomingPayload) # audit.lastProcessedGenerationId

\* the ref and the instance state after the stale guard effect of a commit
StaleGuardEffect ==
    IF StaleGuardRuns /\ (GuardInitializes \/ GuardResets)
    THEN [lastProcessedGenerationId |-> GenerationOf(Props.incomingPayload),
          state |-> IF GuardResets
                    THEN [chatHistory |-> Props.state.chatHistory + 1,
                          reviewerStrategy |-> UNDEF]
                    ELSE audit.state]
    ELSE [lastProcessedGenerationId |-> audit.lastProcessedGenerationId,
          state |-> audit.state]

\* a render of the row with new props, and the effects of its commit in the
\* order they are declared: the stale guard, then apply overrides, which
\* closes over the state of this render
CommitRow(nodeId, index) ==
    /\ audit.rendered # Some(Props)
    /\ audit' = [audit EXCEPT
                    !.rendered = Some(Props),
                    !.lastProcessedGenerationId = StaleGuardEffect.lastProcessedGenerationId,
                    !.state = StaleGuardEffect.state,
                    !.observed = @ \/ StaleGuardEffect.lastProcessedGenerationId # UNDEF]
    /\ IF ApplyOverridesRuns /\ Props.incomingPayload # UNDEF
       THEN LET finalPayload == RowPayload(Props.incomingPayload[1],
                                           Props.state.reviewerStrategy)
                next == RegisterReviewerUpdater(reviewerRegistry, nodeId,
                                                PolishedOut(index), finalPayload)
            IN  /\ reviewerRegistry' = next.map
                /\ changed' = next.fresh
                /\ Ran(Call("registerReviewerPayload", nodeId, PolishedOut(index),
                            finalPayload, UNDEF))
                /\ UNCHANGED <<psdRegistry, templateRegistry, resolvedRegistry,
                               payloadRegistry, previewRegistry, analysisRegistry,
                               knowledgeRegistry, globalVersion>>
       ELSE UNCHANGED storeVars
    /\ UNCHANGED <<oPayload, oOverrides, oResult, hookContext, hookResult, row, scoper>>
    /\ UNCHANGED <<rIncoming, rCurrent, rResolved, rAgain>>

NextAudit ==
    \/ \E p \in AuditIncoming : Upstream(p)
    \/ handleReviewStart
    \/ handleReviewDone
    \/ handleReviewFailed
    \/ CommitRow(FullProducer, 0)

SpecAudit == Init /\ [][NextAudit]_vars


----------------------------------------------------------------------------
(* useKnowledgeScoper: raw text partitioned into scopes. A string is the      *)
(* sequence of its characters.                                                *)

\* const GLOBAL_KEY = 'GLOBAL CONTEXT'
GLOBAL_KEY == << "G", "L", "O", "B", "A", "L", " ", "C", "O", "N", "T", "E", "X", "T" >>

UpperCase == << "A", "B", "C", "D", "E", "F", "G", "H", "I", "J", "K", "L", "M",
               "N", "O", "P", "Q", "R", "S", "T", "U", "V", "W", "X", "Y", "Z" >>

LowerCase == << "a", "b", "c", "d", "e", "f", "g", "h", "i", "j", "k", "l", "m",
               "n", "o", "p", "q", "r", "s", "t", "u", "v", "w", "x", "y", "z" >>

Digits == {"0", "1", "2", "3", "4", "5", "6", "7", "8", "9"}

\* the characters \s and trim() take for space, of those the inputs use
WhiteSpace == {" ", "\t", "\r"}

AllIn(s, set) == \A i \in DOMAIN s : s[i] \in set

\* String.prototype.trim
trim(s) ==
    LET inked == {i \in DOMAIN s : s[i] \notin WhiteSpace}
    IN  IF inked = {} THEN << >>
        ELSE SubSeq(s, CHOOSE i \in inked : \A j \in inked : i <= j,
                       CHOOSE i \in inked : \A j \in inked : i >= j)

\* String.prototype.toUpperCase
toUpperCase(s) ==
    [i \in DOMAIN s |->
        IF \E k \in DOMAIN LowerCase : LowerCase[k] = s[i]
        THEN UpperCase[CHOOSE k \in DOMAIN LowerCase : LowerCase[k] = s[i]]
        ELSE s[i]]

\* rawRules.split('\n')
RECURSIVE split(_)
split(s) ==
    LET breaks == {i \in DOMAIN s : s[i] = "\n"}
    IN  IF breaks = {} THEN << s >>
        ELSE LET b == CHOOSE i \in breaks : \A j \in breaks : i <= j
             IN  << SubSeq(s, 1, b - 1) >> \o split(SubSeq(s, b + 1, Len(s)))

\* (?:#+\s*|[-*]\s*\*\*\s*|\*\*\s*|\[)?
MatchesPrefix(u) ==
    \/ u = << >>
    \/ \E k \in 1..Len(u) :
           AllIn(SubSeq(u, 1, k), {"#"}) /\ AllIn(SubSeq(u, k + 1, Len(u)), WhiteSpace)
    \/ /\ Len(u) >= 3
       /\ u[1] \in {"-", "*"}
       /\ \E a \in 1..(Len(u) - 2) :
              /\ AllIn(SubSeq(u, 2, a), WhiteSpace)
              /\ u[a + 1] = "*" /\ u[a + 2] = "*"
              /\ AllIn(SubSeq(u, a + 3, Len(u)), WhiteSpace)
    \/ /\ Len(u) >= 2
       /\ u[1] = "*" /\ u[2] = "*"
       /\ AllIn(SubSeq(u, 3, Len(u)), WhiteSpace)
    \/ u = << "[" >>

\* ([A-Z][A-Z0-9 _/-]*[A-Z0-9])
MatchesName(u) ==
    /\ Len(u) >= 2
    /\ u[1] \in Range(UpperCase)
    /\ u[Len(u)] \in Range(UpperCase) \cup Digits
    /\ AllIn(SubSeq(u, 2, Len(u) - 1),
             Range(UpperCase) \cup Digits \cup {" ", "_", "/", "-"})

\* (?::|\*\*|\])?\s*$
MatchesSuffix(u) ==
    \E k \in 0..Len(u) :
        /\ SubSeq(u, 1, k) \in {<< >>, << ":" >>, << "*", "*" >>, << "]" >>}
        /\ AllIn(SubSeq(u, k + 1, Len(u)), WhiteSpace)

\* trimmed.match(headerRegex): the captured name, or nothing (null)
headerRegex(trimmed) ==
    LET n == Len(trimmed)
        cuts == {c \in (0..n) \X (0..n) :
                    /\ c[1] <= c[2]
                    /\ MatchesPrefix(SubSeq(trimmed, 1, c[1]))
                    /\ MatchesName(SubSeq(trimmed, c[1] + 1, c[2]))
                    /\ MatchesSuffix(SubSeq(trimmed, c[2] + 1, n))}
    IN  IF cuts = {} THEN UNDEF
        ELSE LET c == CHOOSE c \in cuts : TRUE
             IN  Some(SubSeq(trimmed, c[1] + 1, c[2]))

\* trimmed.length < 40
MaxHeaderLength == 40

\* a header test without the length limit
isLikelyHeaderAnyLength(trimmed) ==
    /\ headerRegex(trimmed) # UNDEF
    /\ trimmed[Len(trimmed)] # "."

\* match && trimmed.length < 40 && !trimmed.endsWith('.')
isLikelyHeader(trimmed) ==
    /\ headerRegex(trimmed) # UNDEF
    /\ Len(trimmed) < MaxHeaderLength
    /\ trimmed[Len(trimmed)] # "."

\* scopes: the buckets in key insertion order, which is the order of
\* Object.keys since a scope name starts with a letter
ScopeNames(scopes) == [i \in DOMAIN scopes |-> scopes[i].name]

HasScope(scopes, name) == \E i \in DOMAIN scopes : scopes[i].name = name

\* scopes[currentScope].push(cleanRule)
Push(scopes, name, rule) ==
    [i \in DOMAIN scopes |->
        IF scopes[i].name = name
        THEN [scopes[i] EXCEPT !.rules = Append(@, rule)]
        ELSE scopes[i]]

\* lines.forEach(line => ...) from line i on
RECURSIVE ForEachLine(_, _, _, _)
ForEachLine(lines, i, scopes, currentScope) ==
    IF i > Len(lines) THEN scopes
    ELSE LET trimmed == trim(lines[i])
         IN  IF trimmed = << >>
             THEN ForEachLine(lines, i + 1, scopes, currentScope)
             ELSE IF isLikelyHeader(trimmed)
             THEN LET name == toUpperCase(trim(headerRegex(trimmed)[1]))
                  IN  ForEachLine(lines, i + 1,
                          IF HasScope(scopes, name) THEN scopes
                          ELSE Append(scopes, [name |-> name, rules |-> << >>]),
                          name)
             ELSE ForEachLine(lines, i + 1, Push(scopes, currentScope, trimmed),
                              currentScope)

\* useKnowledgeScoper(rawRules): { scopes, availableScopes }
useKnowledgeScoper(rawRules) ==
    LET start == << [name |-> GLOBAL_KEY, rules |-> << >>] >>
        scopes == IF rawRules = UNDEF \/ rawRules = Some(<< >>) THEN start
                  ELSE ForEachLine(split(rawRules[1]), 1, start, GLOBAL_KEY)
    IN  [scopes |-> scopes, availableScopes |-> ScopeNames(scopes)]

\* an input line with what a reader takes it for: blank, a header (text is
\* the scope it names) or a rule (text is the rule as stored)
ScopedLine(raw, kind, text) == [raw |-> raw, kind |-> kind, text |-> text]

\* a shouted line of exactly the length at which a header is no header
LongShout == [i \in 1..MaxHeaderLength |-> "A"]

\* blank lines, headers in each markup naming three scopes (one of them the
\* global scope), and rules: padded, bulleted, a single capital, a shouted
\* word with a period, a capitalised word, and a shouted line of 40 letters
LinePool ==
    { ScopedLine(<< >>,
                 "blank", << >>),
      ScopedLine(<< " ", "\t" >>,
                 "blank", << >>),
      ScopedLine(<< "#", "#", " ", "H", "D" >>,
                 "header", << "H", "D" >>),
      ScopedLine(<< "H", "D", ":" >>,
                 "header", << "H", "D" >>),
      ScopedLine(<< "-", " ", "*", "*", "F", "_", "1", "*", "*" >>,
                 "header", << "F", "_", "1" >>),
      ScopedLine(<< "[", "G", "L", "O", "B", "A", "L", " ", "C", "O", "N", "T", "E", "X", "T", "]" >>,
                 "header", << "G", "L", "O", "B", "A", "L", " ", "C", "O", "N", "T", "E", "X", "T" >>),
      ScopedLine(<< " ", "u", "s", "e", " ", "a", " " >>,
                 "rule", << "u", "s", "e", " ", "a" >>),
      ScopedLine(<< "-", " ", "B", "." >>,
                 "rule", << "-", " ", "B", "." >>),
      ScopedLine(<< "A" >>,
                 "rule", << "A" >>),
      ScopedLine(<< "N", "O", "." >>,
                 "rule", << "N", "O", "." >>),
      ScopedLine(<< "H", "d" >>,
                 "rule", << "H", "d" >>),
      ScopedLine(LongShout, "rule", LongShout) }

MaxLines == 3

\* lines.join('\n')
RECURSIVE join(_)
join(lines) ==
    IF Len(lines) = 0 THEN << >>
    ELSE IF Len(lines) = 1 THEN lines[1].raw
    ELSE lines[1].raw \o << "\n" >> \o join(Tail(lines))

LineLists == UNION { [1..k -> LinePool] : k \in 1..MaxLines }

InitScoper ==
    /\ StoreInit
    /\ rIncoming = EmptyObj
    /\ rCurrent = UNDEF
    /\ rResolved = UNDEF
    /\ rAgain = UNDEF
    /\ oPayload = EmptyObj
    /\ oOverrides = << >>
    /\ oResult = UNDEF
    /\ hookContext = UNDEF
    /\ hookResult = [outcome |-> "none", value |-> UNDEF]
    /\ row = NoRow
    /\ audit = NoAudit
    /\ scoper \in {NoScoper} \cup
                  {[lines |-> l, rawRules |-> Some(join(l)), result |-> UNDEF] :
                       l \in LineLists}

Scope ==
    /\ scoper.result = UNDEF
    /\ scoper' = [scoper EXCEPT !.result = Some(useKnowledgeScoper(scoper.rawRules))]
    /\ UNCHANGED <<oPayload, oOverrides, oResult, hookContext, hookResult, row, audit>>
    /\ UNCHANGED <<rIncoming, rCurrent, rResolved, rAgain>>
    /\ UNCHANGED storeVars

NextScoper == Scope

SpecScoper == InitScoper /\ [][NextScoper]_vars


----------------------------------------------------------------------------
(* Claims about the reconciler as a function (SpecReconcile) *)

Applied == rResolved # UNDEF

Resolved == rResolved[1]

AppliedRule == RuleOf(rIncoming, rCurrent)

BothCarryGen ==
    /\ Get(rIncoming, "generationId") # UNDEF
    /\ GetOpt(rCurrent, "generationId") # UNDEF

IncomingIsOlder ==
    /\ BothCarryGen
    /\ Get(rIncoming, "generationId")[1] < GetOpt(rCurrent, "generationId")[1]

\* C1 as stated: whenever both payloads carry a generationId (0 included) and
\* the incoming one is lower, the reconciler returns current unchanged,
\* whatever the other fields are.
C1_MonotonicGeneration ==
    (Applied /\ IncomingIsOlder) => Resolved = rCurrent[1]

\* C1 amended: the same, for an incoming payload whose generationId is not 0,
\* whose generationAllowed is not false and which is not force-confirmed
\* (isMandatory or the mandatory directive, with requiresGeneration).
C1_MonotonicGenerationAmended ==
    ( /\ Applied
      /\ IncomingIsOlder
      /\ Get(rIncoming, "generationId")[1] # 0
      /\ Get(rIncoming, "generationAllowed") # F
      /\ ~(isForced(rIncoming) /\ TruthyBool(Get(rIncoming, "requiresGeneration"))) )
    => Resolved = rCurrent[1]

\* C1 witness: an older, non-zero generation that is neither gated nor forced
\* has been reconciled against a newer one and differs from it.
C1_Witness ==
    /\ Applied
    /\ IncomingIsOlder
    /\ Get(rIncoming, "generationId")[1] # 0
    /\ AppliedRule = "stale"
    /\ Get(rIncoming, "status") = Some("idle")
    /\ ~StructEq(rIncoming, rCurrent[1])
    /\ Resolved = rCurrent[1]

\* C5 as stated: for any a and any b (absent or not), r = reconcile(a, b) is a
\* fixed point: reconcile(r, r) is structurally equal to r.
C5_Idempotence ==
    rAgain # UNDEF => StructEq(rAgain[1], Resolved)

\* C5 amended: r = reconcile(a, b) is a fixed point of reconcile(r, r) when b
\* is absent, or when the rule that produced r is the generation-disallowed
\* hard stop, the forced auto-confirmation, the idle sanitation or the default
\* merge (not the stale guard, the synthesis flush or geometric preservation,
\* which return or keep fields of b).
C5_IdempotenceAmended ==
    ( /\ rAgain # UNDEF
      /\ \/ rCurrent = UNDEF
         \/ AppliedRule \in {"hardStop", "autoConfirm", "idle", "final"} )
    => StructEq(rAgain[1], Resolved)

\* C5 witness: a result that took fields from both arguments has been
\* reconciled with itself and did not move.
C5_Witness ==
    /\ rAgain # UNDEF
    /\ rCurrent # UNDEF
    /\ AppliedRule = "autoConfirm"
    /\ Get(rIncoming, "previewUrl") = UNDEF
    /\ Get(Resolved, "previewUrl") = Some("B")
    /\ ~StructEq(Resolved, rIncoming)
    /\ StructEq(rAgain[1], Resolved)

ResultLayers == Get(Resolved, "layers")[1]

IncomingLayers == Get(rIncoming, "layers")[1]

Disallowed == Applied /\ Get(rIncoming, "generationAllowed") = F

HasSyntheticId(id) == StartsWith(id, SyntheticPrefix)

HasSyntheticOrNoId(id) == id = "" \/ StartsWith(id, SyntheticPrefix)

\* ls without its generative layers whose id starts with the prefix
MinusSynthetic(ls) ==
    LET keep(l) == ~(l.type = "generative" /\ HasSyntheticId(l.id))
    IN  SelectSeq(ls, keep)

\* ls without its generative layers whose id starts with the prefix or is empty
MinusSyntheticOrNoId(ls) ==
    LET keep(l) == ~(l.type = "generative" /\ HasSyntheticOrNoId(l.id))
    IN  SelectSeq(ls, keep)

C10_HardStopPreempts ==
    Disallowed =>
        /\ Get(Resolved, "previewUrl") = UNDEF
        /\ Get(Resolved, "isConfirmed") = F
        /\ Get(Resolved, "isTransient") = F
        /\ Get(Resolved, "isSynthesizing") = F
        /\ Get(Resolved, "requiresGeneration") = F
        /\ Get(Resolved, "metrics") = Get(rIncoming, "metrics")

\* C10 witness: the gate is closed on a forced, synthesizing, older payload
\* with a preview, against a newer synthesizing current that has a preview.
C10_Witness ==
    /\ Disallowed
    /\ isForced(rIncoming)
    /\ Get(rIncoming, "requiresGeneration") = T
    /\ Get(rIncoming, "isSynthesizing") = T
    /\ Get(rIncoming, "previewUrl") = Some("A")
    /\ Get(rIncoming, "metrics") = Some([scale |-> 1])
    /\ IncomingIsOlder
    /\ GetOpt(rCurrent, "isSynthesizing") = T
    /\ GetOpt(rCurrent, "previewUrl") = Some("B")
    /\ Get(Resolved, "metrics") = Some([scale |-> 1])

----------------------------------------------------------------------------
(* Claims about sequences of writes (Spec, SpecPayload) *)

ScenarioStored == Lookup(payloadRegistry, ScenarioNode, ScenarioHandle)

\* C2: on an empty slot, registerPayload of {generationId 1, isSynthesizing,
\* loading}, then {generationId 1, success, previewUrl 'A'}, then the late
\* {generationId 0, success, previewUrl 'OLD'} leaves previewUrl 'A' and
\* generationId 1 in the slot.
C2_ScenarioKeepsNewest ==
    scenario = 3 =>
        /\ ScenarioStored # UNDEF
        /\ Get(ScenarioStored[1], "previewUrl") = Some("A")
        /\ Get(ScenarioStored[1], "generationId") = Some(1)

\* C2 witness: the third write of the scenario has just run.
C2_Witness ==
    /\ scenario = 3
    /\ lastCall = Call("registerPayload", ScenarioNode, ScenarioHandle,
                       ScenarioWrites[3], UNDEF)
    /\ Get(lastCall.payload, "previewUrl") = Some("OLD")
    /\ ScenarioStored # UNDEF

\* the registry a call writes, before and after the step
IsWrite(call) ==
    call.op \in {"registerPayload", "updatePayload", "registerReviewerPayload"}

SlotBefore(call) ==
    IF call.op = "registerReviewerPayload"
    THEN Lookup(reviewerRegistry, call.nodeId, call.handleId)
    ELSE Lookup(payloadRegistry, call.nodeId, call.handleId)

SlotAfter(call) ==
    IF call.op = "registerReviewerPayload"
    THEN Lookup(reviewerRegistry', call.nodeId, call.handleId)
    ELSE Lookup(payloadRegistry', call.nodeId, call.handleId)

\* the payload a write hands to the reconciler
HandedIn(call) ==
    CASE call.op = "registerPayload" ->
             EffectivePayload(call.payload, call.masterOverride)
      [] call.op = "registerReviewerPayload" -> PolishedPayload(call.payload)
      [] call.op = "updatePayload" -> MergedPayload(SlotBefore(call), call.payload)

\* the stored generationId neither drops nor disappears
NoRegress(before, after) ==
    GetOpt(before, "generationId") # UNDEF =>
        /\ GetOpt(after, "generationId") # UNDEF
        /\ GetOpt(after, "generationId")[1] >= GetOpt(before, "generationId")[1]

\* the write hands in a generationId lower than the stored one
HandsInOlder(call) ==
    /\ Get(HandedIn(call), "generationId") # UNDEF
    /\ GetOpt(SlotBefore(call), "generationId") # UNDEF
    /\ Get(HandedIn(call), "generationId")[1] < GetOpt(SlotBefore(call), "generationId")[1]

\* C3 as stated: over any sequence of registerPayload, updatePayload and
\* registerReviewerPayload calls, the generationId stored in a slot never goes
\* from a defined value to a lower one or to absent, and a write of an older
\* generation leaves the slot as it was.
C3_NoRegression ==
    [][ IsWrite(lastCall') =>
            /\ NoRegress(SlotBefore(lastCall'), SlotAfter(lastCall'))
            /\ HandsInOlder(lastCall') =>
                   SlotAfter(lastCall') = SlotBefore(lastCall') ]_vars

\* C3 amended: the same, except for a write that the reconciler handles by the
\* generation-disallowed hard stop, the forced auto-confirmation or the idle
\* sanitation (these store the incoming generationId, lower or absent as it
\* may be); and a write of an older generation leaves the slot as it was when
\* its generationId is not 0 and it is neither gated nor forced.
C3_NoRegressionAmended ==
    [][ IsWrite(lastCall') =>
            LET rule == RuleOf(HandedIn(lastCall'), SlotBefore(lastCall'))
            IN  /\ rule \notin {"hardStop", "autoConfirm", "idle"} =>
                       NoRegress(SlotBefore(lastCall'), SlotAfter(lastCall'))
                /\ ( /\ HandsInOlder(lastCall')
                     /\ Get(HandedIn(lastCall'), "generationId")[1] # 0
                     /\ rule \notin {"hardStop", "autoConfirm"} ) =>
                       SlotAfter(lastCall') = SlotBefore(lastCall') ]_vars

\* C3 witness: the reviewer slot holds the newest generation and has just
\* turned away a late write of generation 1, while the payload slot holds a
\* generation of its own.
C3_Witness ==
    /\ lastCall.op = "registerReviewerPayload"
    /\ Get(lastCall.payload, "generationId") = Some(1)
    /\ ~changed
    /\ GetOpt(Lookup(reviewerRegistry, lastCall.nodeId, lastCall.handleId),
              "generationId") = Some(MaxGen)
    /\ GetOpt(Lookup(payloadRegistry, lastCall.nodeId, lastCall.handleId),
              "generationId") = Some(1)

CarriesGen(call) == IsWrite(call) /\ Get(call.payload, "generationId") # UNDEF

C6_ChangeSuppression ==
    (lastCall.op = "registerPayload" /\ repeated) => ~changed

\* C6 witness: a synthesis-start write has just been repeated on a slot that
\* holds its result.
C6_Witness ==
    /\ lastCall.op = "registerPayload"
    /\ repeated
    /\ ~changed
    /\ lastCall.payload = SynthesisStart(Some(1))
    /\ GetOpt(ScenarioStored, "isSynthesizing") = T

\* C7: after registerPayload with the master gate not closed, the slot holds a
\* payload structurally equal to reconcileTerminalState(candidate, previous),
\* and the registry map is replaced only when there was no previous payload
\* or the reconciled one differs structurally from it.
C7_WriteContract ==
    [][ (lastCall'.op = "registerPayload" /\ lastCall'.masterOverride # F) =>
            LET previous   == SlotBefore(lastCall')
                reconciled == reconcileTerminalState(lastCall'.payload, previous)
            IN  /\ SlotAfter(lastCall') # UNDEF
                /\ StructEq(SlotAfter(lastCall')[1], reconciled)
                /\ changed' => (previous = UNDEF \/ ~StructEq(reconciled, previous[1]))
      ]_vars

----------------------------------------------------------------------------
(* Geometric preservation (SpecReconcile) *)

\* C11 as stated: for every incoming payload that lacks a generationId and
\* every current payload that has one, the result's previewUrl is current's.
C11_GeometricPreservation ==
    ( /\ Applied
      /\ Get(rIncoming, "generationId") = UNDEF
      /\ GetOpt(rCurrent, "generationId") # UNDEF )
    => Get(Resolved, "previewUrl") = GetOpt(rCurrent, "previewUrl")

\* C11 amended: the same when current's generationId is not 0 and incoming is
\* neither generation-disallowed, nor force-confirmed, nor idle (the hard stop
\* and the idle sanitation clear previewUrl, the auto-confirmation prefers
\* incoming's, and a current generationId of 0 counts as none).
C11_GeometricPreservationAmended ==
    ( /\ Applied
      /\ Get(rIncoming, "generationId") = UNDEF
      /\ TruthyNum(GetOpt(rCurrent, "generationId"))
      /\ Get(rIncoming, "generationAllowed") # F
      /\ ~(isForced(rIncoming) /\ TruthyBool(Get(rIncoming, "requiresGeneration")))
      /\ Get(rIncoming, "status") # Some("idle") )
    => Get(Resolved, "previewUrl") = GetOpt(rCurrent, "previewUrl")

\* C11 witness: a layout update that brings a previewUrl of its own met a
\* current generation with another one, and current's was kept.
C11_Witness ==
    /\ Applied
    /\ AppliedRule = "preserve"
    /\ Get(rIncoming, "generationId") = UNDEF
    /\ Get(rIncoming, "previewUrl") = Some("A")
    /\ GetOpt(rCurrent, "previewUrl") = Some("B")
    /\ Get(Resolved, "previewUrl") = Some("B")

----------------------------------------------------------------------------
(* Producer removal (SpecRemoval) *)

registries == <<psdRegistry, templateRegistry, resolvedRegistry, payloadRegistry,
                reviewerRegistry, previewRegistry, analysisRegistry,
                knowledgeRegistry>>

\* the registries that hold an entry under producer p
HoldersOf(p) == {i \in 1..8 : p \in DOMAIN registries[i]}

\* C12: after unregisterNode(p) no registry (psd, template, resolved, payload,
\* reviewer, preview, analysis, knowledge) has an entry under p, whichever of
\* them had one, and globalVersion is one more than before; when p had no
\* entry anywhere the registries keep their contents and globalVersion is
\* still one more.
C12_RemovalPurges ==
    [][ lastCall'.op = "unregisterNode" =>
            /\ \A i \in 1..8 : lastCall'.nodeId \notin DOMAIN registries'[i]
            /\ globalVersion' = globalVersion + 1
            /\ HoldersOf(lastCall'.nodeId) = {} => registries' = registries
      ]_vars

\* C12 witness: the producer that had been writing was removed, the version
\* moved, and the other producer's entries are still there.
C12_Witness ==
    /\ lastCall.op = "unregisterNode"
    /\ lastCall.nodeId = FullProducer
    /\ HoldersOf(FullProducer) = {}
    /\ HoldersOf("n2") = {1, 8}
    /\ globalVersion = 1

----------------------------------------------------------------------------
(* The reviewer registry (SpecReviewer) *)

\* C13: in every reachable state every payload stored in reviewerRegistry has
\* isPolished = true, whatever isPolished the caller passed and whichever rule
\* of the reconciler produced the stored value, for registerReviewerPayload
\* and registerPreviewPayload alike.
C13_ReviewerPolished ==
    \A n \in DOMAIN reviewerRegistry : \A h \in DOMAIN reviewerRegistry[n] :
        Get(reviewerRegistry[n][h], "isPolished") = T

\* C13 witness: a preview proxy passed isPolished = false with an older
\* generation; the stale guard kept the stored entry, which is polished.
C13_Witness ==
    /\ lastCall.op = "registerPreviewPayload"
    /\ Get(lastCall.payload, "isPolished") = F
    /\ Get(lastCall.payload, "generationId") = Some(1)
    /\ GetOpt(Lookup(reviewerRegistry, FullProducer, Port), "generationId") = Some(MaxGen)
    /\ GetOpt(Lookup(reviewerRegistry, FullProducer, Port), "isPolished") = T

\* C14: registerPreviewPayload(p, h, payload, renderUrl) stores renderUrl at
\* previewRegistry[p][h], and the reviewer entry at [p][h] is
\* reconcileTerminalState(payload with isPolished = true, previous reviewer
\* entry): renderUrl does not enter it.
C14_PreviewSeparation ==
    [][ lastCall'.op = "registerPreviewPayload" =>
            LET n == lastCall'.nodeId
                h == lastCall'.handleId
                reconciled ==
                    reconcileTerminalState(Put(lastCall'.payload, "isPolished", T),
                                           Lookup(reviewerRegistry, n, h))
            IN  /\ Lookup(previewRegistry', n, h) = Some(lastCall'.url)
                /\ Lookup(reviewerRegistry', n, h) # UNDEF
                /\ StructEq(Lookup(reviewerRegistry', n, h)[1], reconciled)
      ]_vars

\* C14 witness: the render 'R' is in the preview registry and the reviewer
\* entry written by the same call has the payload's own previewUrl 'A'.
C14_Witness ==
    /\ lastCall.op = "registerPreviewPayload"
    /\ lastCall.url = "R"
    /\ changed
    /\ Lookup(previewRegistry, FullProducer, Port) = Some("R")
    /\ Get(lastCall.payload, "previewUrl") = Some("A")
    /\ GetOpt(Lookup(reviewerRegistry, FullProducer, Port), "previewUrl") = Some("A")

----------------------------------------------------------------------------
(* Partial writes and preview updates on a slot (SpecPartial) *)

\* the partial names a source container or a preview (a non-empty one)
Identifies(partial) ==
    TruthyStr(Get(partial, "sourceContainer")) \/ TruthyStr(Get(partial, "previewUrl"))

\* C15: updatePayload on a slot that holds nothing leaves the payload registry
\* as it was when the partial carries neither sourceContainer nor previewUrl;
\* when it carries one of them, the partial is reconciled as a full payload
\* (against an absent current) and stored.
C15_PartialOnEmptySlot ==
    [][ (lastCall'.op = "updatePayload" /\ SlotBefore(lastCall') = UNDEF) =>
            IF Identifies(lastCall'.payload)
            THEN /\ SlotAfter(lastCall') # UNDEF
                 /\ StructEq(SlotAfter(lastCall')[1],
                             reconcileTerminalState(lastCall'.payload, UNDEF))
            ELSE payloadRegistry' = payloadRegistry /\ ~changed'
      ]_vars

\* C16: stored payloads change only through the reconciler, never by a raw
\* overwrite of a field; in particular, in every reachable state a stored
\* payload with generationAllowed = false has no previewUrl.
C16_DisallowedHasNoPreview ==
    \A n \in DOMAIN payloadRegistry : \A h \in DOMAIN payloadRegistry[n] :
        Get(payloadRegistry[n][h], "generationAllowed") = F =>
            Get(payloadRegistry[n][h], "previewUrl") = UNDEF

----------------------------------------------------------------------------
(* Writes to different slots (SpecSlots) *)

\* two slots that differ in the port, and two that differ in the producer
SlotPairs ==
    { << <<"n1", "h1">>, <<"n1", "h2">> >>, << <<"n1", "h1">>, <<"n2", "h1">> >> }

\* from the store as it is, writes to two different slots give the same
\* payload registry in either order
Commutes ==
    \A pair \in SlotPairs, a \in SlotOps, b \in SlotOps :
        ApplyWrite(ApplyWrite(payloadRegistry, pair[1], a), pair[2], b)
            = ApplyWrite(ApplyWrite(payloadRegistry, pair[2], b), pair[1], a)

\* what a write to a payload slot leaves alone
WriteFrame(call) ==
    /\ \A s \in Slots :
           s # <<call.nodeId, call.handleId>> =>
               Lookup(payloadRegistry', s[1], s[2]) = Lookup(payloadRegistry, s[1], s[2])
    /\ UNCHANGED <<psdRegistry, templateRegistry, resolvedRegistry, reviewerRegistry,
                   previewRegistry, analysisRegistry, knowledgeRegistry, globalVersion>>

\* C17: writes (registerPayload, updatePayload) to different slots, whether
\* the producer or the port differs, commute, and a write to one slot leaves
\* every other slot, every other registry and globalVersion unchanged.
C17_SlotsIndependent ==
    /\ []Commutes
    /\ [][ lastCall'.op \in {"registerPayload", "updatePayload"} =>
               WriteFrame(lastCall') ]_vars

\* C17 witness: a partial write has just changed the second port of a producer
\* while its first port, a port of another producer and the reviewer registry
\* hold entries.
C17_Witness ==
    /\ lastCall.op = "updatePayload"
    /\ lastCall.nodeId = "n1" /\ lastCall.handleId = "h2"
    /\ changed
    /\ GetOpt(Lookup(payloadRegistry, "n1", "h2"), "previewUrl") = Some("P")
    /\ GetOpt(Lookup(payloadRegistry, "n1", "h1"), "previewUrl") = Some("A")
    /\ GetOpt(Lookup(payloadRegistry, "n2", "h1"), "previewUrl") = Some("P")
    /\ Lookup(reviewerRegistry, FullProducer, Port) # UNDEF

----------------------------------------------------------------------------
(* applyOverridesToPayload (SpecOverrides) *)

\* the layers of a tree in preorder, at every depth
RECURSIVE Flatten(_)
Flatten(layers) ==
    IF layers = <<>> THEN <<>>
    ELSE <<Head(layers)>>
         \o (IF Head(layers).children # UNDEF THEN Flatten(Head(layers).children[1])
             ELSE <<>>)
         \o Flatten(Tail(layers))

\* the ids of a tree with their order and nesting
RECURSIVE Shape(_)
Shape(layers) ==
    [i \in DOMAIN layers |->
        [id |-> layers[i].id,
         children |-> IF layers[i].children # UNDEF
                      THEN Some(Shape(layers[i].children[1])) ELSE UNDEF]]

LayersIn == Flatten(Get(oPayload, "layers")[1])

LayersOut == Flatten(Get(oResult[1], "layers")[1])

\* layer after is layer before moved by the override's offsets, scaled by s
\* and turned by the override's rotation (0 when absent)
MovedBy(before, after, override, s) ==
    /\ after.coords.x = RAdd(before.coords.x, override.xOffset)
    /\ after.coords.y = RAdd(before.coords.y, override.yOffset)
    /\ after.coords.w = RMul(before.coords.w, s)
    /\ after.coords.h = RMul(before.coords.h, s)
    /\ after.transform.scaleX = RMul(before.transform.scaleX, s)
    /\ after.transform.scaleY = RMul(before.transform.scaleY, s)
    /\ after.transform.rotation =
           Some(RAdd(OrRat(before.transform.rotation, Num(0)),
                     OrRat(override.rotation, Num(0))))

\* C18 as stated: every layer whose id matches an override (the first in the
\* list that names it, with an individualScale) comes out with x + xOffset,
\* y + yOffset, w and h times individualScale, scaleX and scaleY times
\* individualScale, and rotation plus the override's rotation (0 when absent).
C18_OverrideGeometry ==
    oResult # UNDEF =>
        /\ Len(LayersOut) = Len(LayersIn)
        /\ \A i \in DOMAIN LayersIn :
               LET override == FindOverride(oOverrides, LayersIn[i].id)
               IN  (override # UNDEF /\ override[1].individualScale # UNDEF) =>
                       MovedBy(LayersIn[i], LayersOut[i], override[1],
                               override[1].individualScale[1])

\* C18 amended: the same with the scale factor being individualScale when it
\* is a number other than 0, and 1 when it is 0 or absent.
C18_OverrideGeometryAmended ==
    oResult # UNDEF =>
        /\ Len(LayersOut) = Len(LayersIn)
        /\ \A i \in DOMAIN LayersIn :
               LET override == FindOverride(oOverrides, LayersIn[i].id)
               IN  override # UNDEF =>
                       MovedBy(LayersIn[i], LayersOut[i], override[1],
                               IF override[1].individualScale \in {UNDEF, Some(Num(0))}
                               THEN Num(1) ELSE override[1].individualScale[1])

\* C18 witness: the spec's example, (10, 10, 100, 50) under {xOffset 5,
\* yOffset -5, individualScale 0.9}, came out at (15, 5, 90, 45).
C18_Witness ==
    /\ oResult # UNDEF
    /\ Get(oPayload, "layers")[1] = << LeafA >>
    /\ oOverrides = << Override("a", 5, -5, Some(Rat(9, 10)), UNDEF) >>
    /\ LayersOut[1].coords = Coords(15, 5, 90, 45)
    /\ LayersOut[1].transform.scaleX = Rat(9, 10)

\* C19: the output tree has the input's layer ids in the same order and
\* nesting at every depth, overrides reach matching layers at any depth,
\* layers that no override names keep their coords and transform, and the
\* input payload is as it was.
C19_TreePreserved ==
    oResult # UNDEF =>
        /\ Shape(Get(oResult[1], "layers")[1]) = Shape(Get(oPayload, "layers")[1])
        /\ Len(LayersOut) = Len(LayersIn)
        /\ \A i \in DOMAIN LayersIn :
               LET override == FindOverride(oOverrides, LayersIn[i].id)
               IN  IF override = UNDEF
                   THEN /\ LayersOut[i].coords = LayersIn[i].coords
                        /\ LayersOut[i].transform = LayersIn[i].transform
                   ELSE /\ LayersOut[i].coords.x
                               = RAdd(LayersIn[i].coords.x, override[1].xOffset)
                        /\ LayersOut[i].coords.y
                               = RAdd(LayersIn[i].coords.y, override[1].yOffset)
        /\ oPayload \in OverridePayloads
        /\ Get(oPayload, "isPolished") = UNDEF

\* C19 witness: in the three-level tree the layer 'a' two groups down was
\* moved and its unnamed sibling 'c' was not.
C19_Witness ==
    /\ oResult # UNDEF
    /\ Len(LayersIn) = 5
    /\ oOverrides = << Override("zz", 9, 9, Some(Num(3)), Some(Num(9))),
                       Override("a", 5, -5, Some(Rat(9, 10)), UNDEF) >>
    /\ LayersOut[4].id = "a"
    /\ LayersOut[4].coords = Coords(15, 5, 90, 45)
    /\ LayersOut[3] = LeafC

----------------------------------------------------------------------------
(* useProceduralStore (SpecHook) *)

\* C20: useProceduralStore throws when no provider supplies a store (the
\* context value is null) and returns nothing; with a provider it returns
\* the store and does not throw.
C20_FatalWiring ==
    hookResult.outcome # "none" =>
        IF hookContext = UNDEF
        THEN hookResult = [outcome |-> "threw", value |-> UNDEF]
        ELSE hookResult = [outcome |-> "returned", value |-> hookContext]

\* C20 witness: a component outside the provider called the hook while the
\* store held entries, and the call threw.
C20_Witness ==
    /\ hookResult.outcome = "threw"
    /\ hookContext = UNDEF
    /\ DOMAIN psdRegistry = Producers
    /\ globalVersion = 1

----------------------------------------------------------------------------
(* Mandatory auto-confirmation (SpecReconcile) *)

\* generation is not disallowed, and it is forced and requested
ForceConfirmed ==
    /\ Applied
    /\ Get(rIncoming, "generationAllowed") # F
    /\ isForced(rIncoming)
    /\ TruthyBool(Get(rIncoming, "requiresGeneration"))

\* C23 as stated: when generationAllowed is not false and generation is forced
\* (isMandatory or the mandatory directive) and requested, the result has
\* status 'success', isConfirmed true, isTransient false, incoming's
\* isSynthesizing, and previewUrl, sourceReference and generationId are each
\* incoming's value when incoming has one and current's only when it has none.
C23_AutoConfirmation ==
    ForceConfirmed =>
        /\ Get(Resolved, "status") = Some("success")
        /\ Get(Resolved, "isConfirmed") = T
        /\ Get(Resolved, "isTransient") = F
        /\ Get(Resolved, "isSynthesizing") = Get(rIncoming, "isSynthesizing")
        /\ \A k \in {"previewUrl", "sourceReference", "generationId"} :
               Get(Resolved, k) = IF Get(rIncoming, k) # UNDEF
                                  THEN Get(rIncoming, k)
                                  ELSE GetOpt(rCurrent, k)

\* C23 amended: the same, except that an incoming generationId of 0 (and an
\* empty previewUrl or sourceReference) counts as absent: the result then
\* carries current's value, or none when current is absent.
C23_AutoConfirmationAmended ==
    ForceConfirmed =>
        /\ Get(Resolved, "status") = Some("success")
        /\ Get(Resolved, "isConfirmed") = T
        /\ Get(Resolved, "isTransient") = F
        /\ Get(Resolved, "isSynthesizing") = Get(rIncoming, "isSynthesizing")
        /\ \A k \in {"previewUrl", "sourceReference"} :
               Get(Resolved, k) = IF TruthyStr(Get(rIncoming, k))
                                  THEN Get(rIncoming, k)
                                  ELSE GetOpt(rCurrent, k)
        /\ Get(Resolved, "generationId") =
               IF TruthyNum(Get(rIncoming, "generationId"))
               THEN Get(rIncoming, "generationId")
               ELSE GetOpt(rCurrent, "generationId")

\* C23 witness: a forced, requested draft of an older generation without a
\* preview met a newer current with one: it was confirmed with its own
\* generationId and current's previewUrl.
C23_Witness ==
    /\ ForceConfirmed
    /\ Get(rIncoming, "isTransient") = T
    /\ Get(rIncoming, "isSynthesizing") = T
    /\ Get(rIncoming, "previewUrl") = UNDEF
    /\ Get(rIncoming, "generationId") = Some(1)
    /\ GetOpt(rCurrent, "generationId") = Some(2)
    /\ GetOpt(rCurrent, "previewUrl") = Some("B")
    /\ Get(Resolved, "generationId") = Some(1)
    /\ Get(Resolved, "previewUrl") = Some("B")
    /\ Get(Resolved, "isConfirmed") = T
    /\ Get(Resolved, "isTransient") = F

----------------------------------------------------------------------------
(* Idle sanitation (SpecReconcile) *)

\* the first three rules pass the incoming payload on, and its status is 'idle'
ReachesIdleTest ==
    /\ Applied
    /\ Get(rIncoming, "generationAllowed") # F
    /\ ~(isForced(rIncoming) /\ TruthyBool(Get(rIncoming, "requiresGeneration")))
    /\ ~IsStale(rIncoming, rCurrent)
    /\ Get(rIncoming, "status") = Some("idle")

\* C24: when the hard stop, the auto-confirmation and the stale guard do not
\* apply and incoming.status is 'idle', the result is incoming with previewUrl
\* absent and isConfirmed, isTransient, isSynthesizing false: a function of
\* incoming alone, with no field of current in it.
C24_IdleSanitation ==
    ReachesIdleTest =>
        Resolved.val = [rIncoming.val EXCEPT !["previewUrl"] = UNDEF,
                                             !["isConfirmed"] = F,
                                             !["isTransient"] = F,
                                             !["isSynthesizing"] = F]

\* C24 witness: an idle, synthesizing draft without a generationId met a
\* confirmed current generation with a preview, and nothing of it was kept.
C24_Witness ==
    /\ ReachesIdleTest
    /\ Get(rIncoming, "generationId") = UNDEF
    /\ Get(rIncoming, "previewUrl") = Some("A")
    /\ Get(rIncoming, "isSynthesizing") = T
    /\ Get(rIncoming, "isTransient") = T
    /\ GetOpt(rCurrent, "generationId") = Some(2)
    /\ GetOpt(rCurrent, "previewUrl") = Some("B")
    /\ GetOpt(rCurrent, "isConfirmed") = T
    /\ Get(Resolved, "previewUrl") = UNDEF
    /\ Get(Resolved, "generationId") = UNDEF
    /\ Get(Resolved, "isConfirmed") = F

----------------------------------------------------------------------------
(* Synthesis-in-flight flush (SpecReconcile) *)

\* the first four rules pass the incoming payload on, and it is synthesizing
ReachesFlushTest ==
    /\ Applied
    /\ Get(rIncoming, "generationAllowed") # F
    /\ ~(isForced(rIncoming) /\ TruthyBool(Get(rIncoming, "requiresGeneration")))
    /\ ~IsStale(rIncoming, rCurrent)
    /\ Get(rIncoming, "status") # Some("idle")
    /\ Get(rIncoming, "isSynthesizing") = T

\* the fields the flush sets itself
FlushFields ==
    {"isSynthesizing", "previewUrl", "generationId", "generationAllowed",
     "sourceReference", "targetContainer", "metrics"}

FlushBase == IF rCurrent # UNDEF THEN rCurrent[1] ELSE rIncoming

\* incoming's field when incoming has it, else current's
IncomingElseCurrent(k) ==
    IF Get(rIncoming, k) # UNDEF THEN Get(rIncoming, k) ELSE GetOpt(rCurrent, k)

\* what C25 says of every field but targetContainer
FlushedButContainer ==
    /\ Get(Resolved, "isSynthesizing") = T
    /\ Get(Resolved, "previewUrl") = GetOpt(rCurrent, "previewUrl")
    /\ Get(Resolved, "generationId") = GetOpt(rCurrent, "generationId")
    /\ Get(Resolved, "generationAllowed") = T
    /\ Get(Resolved, "sourceReference") = IncomingElseCurrent("sourceReference")
    /\ Get(Resolved, "metrics") = IncomingElseCurrent("metrics")
    /\ \A k \in Keys \ FlushFields : Get(Resolved, k) = Get(FlushBase, k)

----------------------------------------------------------------------------
(* Default merge (SpecReconcile) *)

\* no earlier rule applies
ReachesDefault ==
    /\ Applied
    /\ Get(rIncoming, "generationAllowed") # F
    /\ ~(isForced(rIncoming) /\ TruthyBool(Get(rIncoming, "requiresGeneration")))
    /\ ~IsStale(rIncoming, rCurrent)
    /\ Get(rIncoming, "status") # Some("idle")
    /\ Get(rIncoming, "isSynthesizing") # T
    /\ ~IsLayoutUpdate(rIncoming, rCurrent)

DefaultFields == {"isConfirmed", "sourceReference", "generationId", "generationAllowed"}

\* what C26 says of every field but generationId
MergedButGeneration ==
    /\ Get(Resolved, "isConfirmed") =
           IF Get(rIncoming, "isTransient") = T THEN F
           ELSE IF Get(rIncoming, "isConfirmed") # UNDEF THEN Get(rIncoming, "isConfirmed")
           ELSE IF GetOpt(rCurrent, "isConfirmed") # UNDEF THEN GetOpt(rCurrent, "isConfirmed")
           ELSE F
    /\ Get(Resolved, "sourceReference") = IncomingElseCurrent("sourceReference")
    /\ Get(Resolved, "generationAllowed") = T
    /\ \A k \in Keys \ DefaultFields : Get(Resolved, k) = Get(rIncoming, k)

\* C26 as stated: when no earlier rule applies the result is incoming with
\* isConfirmed = incoming's if present, else current's if present, else false,
\* and false whenever incoming.isTransient is true; sourceReference and
\* generationId are incoming's, current's when incoming has none;
\* generationAllowed is true.
C26_DefaultMerge ==
    ReachesDefault =>
        /\ MergedButGeneration
        /\ Get(Resolved, "generationId") = IncomingElseCurrent("generationId")

\* C26 amended: the same, except that an incoming generationId of 0 counts as
\* none: the result then carries current's generationId, or none.
C26_DefaultMergeAmended ==
    ReachesDefault =>
        /\ MergedButGeneration
        /\ Get(Resolved, "generationId") =
               IF TruthyNum(Get(rIncoming, "generationId"))
               THEN Get(rIncoming, "generationId")
               ELSE GetOpt(rCurrent, "generationId")

\* C26 witness: a confirmed draft of a newer generation without provenance met
\* a confirmed current with provenance: it was stored unconfirmed, with its
\* own generationId and current's sourceReference.
C26_Witness ==
    /\ ReachesDefault
    /\ Get(rIncoming, "isTransient") = T
    /\ Get(rIncoming, "isConfirmed") = T
    /\ Get(rIncoming, "generationId") = Some(2)
    /\ Get(rIncoming, "sourceReference") = UNDEF
    /\ GetOpt(rCurrent, "generationId") = Some(1)
    /\ GetOpt(rCurrent, "isConfirmed") = T
    /\ GetOpt(rCurrent, "sourceReference") = Some("S2")
    /\ Get(Resolved, "isConfirmed") = F
    /\ Get(Resolved, "generationId") = Some(2)
    /\ Get(Resolved, "sourceReference") = Some("S2")
    /\ Get(Resolved, "generationAllowed") = T

----------------------------------------------------------------------------
(* Rule priority (SpecReconcile) *)

\* the seven rules in the order the claim lists them
RuleOrder ==
    <<"hardStop", "autoConfirm", "stale", "idle", "flush", "preserve", "final">>

\* whether the i-th rule's own condition holds of the harness inputs
Matches(i) ==
    CASE i = 1 -> Get(rIncoming, "generationAllowed") = F
      [] i = 2 -> isForced(rIncoming) /\ TruthyBool(Get(rIncoming, "requiresGeneration"))
      [] i = 3 -> IsStale(rIncoming, rCurrent)
      [] i = 4 -> Get(rIncoming, "status") = Some("idle")
      [] i = 5 -> Get(rIncoming, "isSynthesizing") = T
      [] i = 6 -> IsLayoutUpdate(rIncoming, rCurrent)
      [] OTHER -> TRUE

FirstMatching ==
    CHOOSE i \in DOMAIN RuleOrder : Matches(i) /\ \A j \in 1..(i - 1) : ~Matches(j)

\* the result the i-th rule gives
OutcomeOf(i) ==
    CASE i = 1 -> HardStop(rIncoming)
      [] i = 2 -> AutoConfirm(rIncoming, rCurrent)
      [] i = 3 -> rCurrent[1]
      [] i = 4 -> IdleReset(rIncoming)
      [] i = 5 -> Flush(rIncoming, rCurrent)
      [] i = 6 -> Preserve(rIncoming, rCurrent)
      [] OTHER -> FinalConstruction(rIncoming, rCurrent)

\* C28: the result is that of the first matching rule in the order
\* generation-disallowed, auto-confirmation, stale guard, idle sanitation,
\* synthesis flush, geometric preservation, default merge; an incoming that
\* is stale and idle (and neither disallowed nor forced) gives current back,
\* and one that is idle and synthesizing (and not caught earlier) comes out
\* with isSynthesizing false.
C28_RulePriority ==
    Applied =>
        /\ Resolved = OutcomeOf(FirstMatching)
        /\ (~Matches(1) /\ ~Matches(2) /\ Matches(3) /\ Matches(4))
               => Resolved = rCurrent[1]
        /\ (~Matches(1) /\ ~Matches(2) /\ ~Matches(3) /\ Matches(4) /\ Matches(5))
               => Get(Resolved, "isSynthesizing") = F

\* C28 witness: an incoming that is stale, idle and synthesizing at once was
\* rejected, and the synthesizing draft that current is came back as it was.
C28_Witness ==
    /\ Applied
    /\ ~Matches(1) /\ ~Matches(2)
    /\ Matches(3) /\ Matches(4) /\ Matches(5)
    /\ GetOpt(rCurrent, "isSynthesizing") = T
    /\ GetOpt(rCurrent, "previewUrl") = Some("B")
    /\ Get(rIncoming, "previewUrl") = UNDEF
    /\ Resolved = rCurrent[1]

----------------------------------------------------------------------------
(* Drafts in the store (SpecDrafts) *)

\* the artifacts held by the payload and the reviewer registries
StoredArtifacts ==
    { reg[n][h] : <<reg, n, h>> \in
        { <<r, m, g>> \in {payloadRegistry, reviewerRegistry} \X Producers \X {Port} :
            m \in DOMAIN r /\ g \in DOMAIN r[m] } }

\* C27 as stated: in every reachable state no artifact stored in the payload
\* or the reviewer registry has isTransient true and isConfirmed true,
\* whatever registerPayload, updatePayload, registerReviewerPayload,
\* registerPreviewPayload and updatePreview calls were made.
C27_NoConfirmedDraft ==
    \A a \in StoredArtifacts :
        ~(Get(a, "isTransient") = T /\ Get(a, "isConfirmed") = T)

----------------------------------------------------------------------------
(* The global version and the removal frame (SpecLifecycle) *)

VersionOps == {"unregisterNode", "triggerGlobalRefresh"}

\* C29: globalVersion starts at 0 and never decreases; when it changes it
\* grows by exactly 1 and the operation is unregisterNode or
\* triggerGlobalRefresh, both of which always add 1; every register* and
\* update* operation leaves it as it was.
C29_VersionMonotone ==
    /\ globalVersion = 0
    /\ [][ /\ globalVersion' >= globalVersion
           /\ globalVersion' # globalVersion =>
                  (globalVersion' = globalVersion + 1 /\ lastCall'.op \in VersionOps)
           /\ lastCall'.op \in VersionOps => globalVersion' = globalVersion + 1
           /\ lastCall'.op \notin VersionOps => globalVersion' = globalVersion
         ]_vars

\* C29 witness: the version has moved by a refresh while both producers hold
\* entries written by register* and update* operations.
C29_Witness ==
    /\ globalVersion = 1
    /\ lastCall.op = "updatePreview"
    /\ changed
    /\ HoldersOf(FullProducer) = 2..7
    /\ HoldersOf(SideProducer) = {1, 8}

\* what each registry holds under producer q
EntriesOf(q) ==
    << Entry(psdRegistry, q), Entry(templateRegistry, q), Entry(resolvedRegistry, q),
       Entry(payloadRegistry, q), Entry(reviewerRegistry, q), Entry(previewRegistry, q),
       Entry(analysisRegistry, q), Entry(knowledgeRegistry, q) >>

\* artifacts written to a slot of a removed producer: a layout update, a
\* synthesis start and a confirmation without a generationId
LaterWrites ==
    { LateResult(UNDEF), SynthesisStart(UNDEF), Flagged(SynthesisDone(UNDEF), UNDEF, UNDEF) }

\* the slot (p, Port) of the map an updater returned
SlotOf(next, p) == Lookup(next.map, p, Port)

\* right after unregisterNode(p): a write of w to the slot of p, through any
\* of the three writers, stores w reconciled against no current
WritesStartAfresh(p) ==
    \A w \in LaterWrites :
        /\ SlotOf(RegisterPayloadUpdater(payloadRegistry, p, Port, w, UNDEF), p)
               = Some(reconcileTerminalState(w, UNDEF))
        /\ SlotOf(RegisterReviewerUpdater(reviewerRegistry, p, Port, w), p)
               = Some(reconcileTerminalState(PolishedPayload(w), UNDEF))
        /\ SlotOf(UpdatePayloadUpdater(payloadRegistry, p, Port,
                                       MkPayload([isConfirmed |-> T])), p) = UNDEF

\* C30: unregisterNode(p) leaves what every registry holds under every other
\* producer as it was, and in the state it leaves a write to a slot of p is
\* reconciled against an absent current: nothing of the removed artifact
\* (generationId, previewUrl, confirmation) is in what the write stores.
C30_RemovalFrame ==
    /\ [](lastCall.op = "unregisterNode" => WritesStartAfresh(lastCall.nodeId))
    /\ [][ lastCall'.op = "unregisterNode" =>
               \A q \in Producers \ {lastCall'.nodeId} : EntriesOf(q)' = EntriesOf(q)
         ]_vars

\* C30 witness: the producer that wrote everywhere has just been removed, the
\* other one still holds its document and rules, and a layout update written
\* now comes out with no generationId and its own previewUrl.
C30_Witness ==
    /\ lastCall.op = "unregisterNode"
    /\ lastCall.nodeId = FullProducer
    /\ EntriesOf(SideProducer)[1] = Some(PsdDocument)
    /\ EntriesOf(SideProducer)[8] = Some(KnowledgeRules)
    /\ LET after == SlotOf(RegisterPayloadUpdater(payloadRegistry, FullProducer, Port,
                                                  LateResult(UNDEF), UNDEF), FullProducer)
       IN  /\ GetOpt(after, "generationId") = UNDEF
           /\ GetOpt(after, "previewUrl") = Some("OLD")

----------------------------------------------------------------------------
(* Metadata dedup (SpecMetadata) *)

MetadataOps == {"registerTemplate", "registerAnalysis", "registerKnowledge"}

\* the registry a metadata operation writes, as a tuple index of registries
RegistryOf(op) ==
    CASE op = "registerTemplate" -> 2
      [] op = "registerAnalysis" -> 7
      [] OTHER -> 8

\* what registry i holds at the place a call names, optional
HeldAt(regs, call) ==
    IF call.op = "registerAnalysis"
    THEN Lookup(regs[RegistryOf(call.op)], call.nodeId, call.handleId)
    ELSE Entry(regs[RegistryOf(call.op)], call.nodeId)

\* C22 as stated: registerTemplate, registerAnalysis and registerKnowledge
\* return the same map when the value written is identical or structurally
\* deep-equal to the one stored under the key, and otherwise store the value
\* as it was given.
C22_MetadataDedup ==
    [][ lastCall'.op \in MetadataOps =>
            LET stored == HeldAt(registries, lastCall')
                kept   == registries'[RegistryOf(lastCall'.op)]
                              = registries[RegistryOf(lastCall'.op)]
            IN  IF stored # UNDEF /\ StructEq(stored[1], lastCall'.payload)
                THEN ~changed' /\ kept
                ELSE changed' /\ HeldAt(registries', lastCall') = Some(lastCall'.payload)
      ]_vars

----------------------------------------------------------------------------
(* Writes without an artifact (SpecRow) *)

\* the writers that take a whole artifact
ArtifactWriters == {"registerPayload", "registerReviewerPayload", "registerPreviewPayload"}

\* C21 as stated: a write operation invoked without an artifact leaves every
\* registry unchanged, and the reviewer row makes no registerReviewerPayload
\* call (the store and its record of calls stay as they were) when it runs
\* with an absent incoming payload.
C21_NoArtifactNoWrite ==
    [][ /\ (lastCall'.op \in ArtifactWriters /\ lastCall'.payload = AbsentPayload)
               => registries' = registries
        /\ (row' # row /\ row'.incomingPayload = UNDEF)
               => storeVars' = storeVars
      ]_vars

----------------------------------------------------------------------------
(* The first synthesis start (SpecPayload) *)

\* the write reaches the reconciler and the reconciler's flush rule
ReachesFlush(call) ==
    /\ ~(call.op = "updatePayload" /\ PartialIgnored(SlotBefore(call), call.payload))
    /\ RuleOf(HandedIn(call), SlotBefore(call)) = "flush"

----------------------------------------------------------------------------
(* The depth of the generation-disallowed filter (SpecReconcile) *)

\* layer l has, among its children, an additive generative layer
OwnsSyntheticChild(l) ==
    \E j \in DOMAIN l.children :
        /\ l.children[j].type = "generative"
        /\ StartsWith(l.children[j].id, SyntheticPrefix)

\* C37: with generationAllowed = false every layer of the result is a layer of
\* the incoming list as it was given, children included, and every incoming
\* layer that is not generative is in the result: a generative 'gen-layer-'
\* child nested in a retained group is still there.
C37_TopLevelOnly ==
    Disallowed =>
        /\ \A i \in DOMAIN ResultLayers : ResultLayers[i] \in Range(IncomingLayers)
        /\ \A i \in DOMAIN IncomingLayers :
               IncomingLayers[i].type # "generative" =>
                   IncomingLayers[i] \in Range(ResultLayers)

\* C37 witness: the gate is closed on a list whose top-level additive layer
\* went and whose group still owns its additive child.
C37_Witness ==
    /\ Disallowed
    /\ \E i \in DOMAIN IncomingLayers :
           /\ IncomingLayers[i].type = "generative"
           /\ StartsWith(IncomingLayers[i].id, SyntheticPrefix)
           /\ IncomingLayers[i] \notin Range(ResultLayers)
    /\ \E i \in DOMAIN ResultLayers :
           ResultLayers[i].type = "group" /\ OwnsSyntheticChild(ResultLayers[i])

----------------------------------------------------------------------------
(* The master override (SpecGate) *)

\* layers has no top-level generative layer with a synthetic id
NoAdditiveLayer(layers) ==
    \A i \in DOMAIN layers :
        ~(layers[i].type = "generative" /\ StartsWith(layers[i].id, SyntheticPrefix))

\* C33: after registerPayload(p, h, payload, false), whatever
\* payload.generationAllowed was, the artifact at (p, h) has generationAllowed
\* false, no previewUrl, isConfirmed, isTransient, isSynthesizing and
\* requiresGeneration false, and no top-level generative layer with a
\* 'gen-layer-' id; the payload object of the caller is as it was handed in.
C33_MasterOverride ==
    [][ (lastCall'.op = "registerPayload" /\ lastCall'.masterOverride = F) =>
            LET stored == SlotAfter(lastCall')
            IN  /\ stored # UNDEF
                /\ GetOpt(stored, "generationAllowed") = F
                /\ GetOpt(stored, "previewUrl") = UNDEF
                /\ \A k \in {"isConfirmed", "isTransient", "isSynthesizing",
                             "requiresGeneration"} : GetOpt(stored, k) = F
                /\ NoAdditiveLayer(GetOpt(stored, "layers")[1])
                /\ lastCall'.payload \in GateWrites
      ]_vars

\* C33 witness: a confirmed completion that allows generation and brings a
\* preview and an additive layer was written under a closed master gate; the
\* slot holds it switched off and stripped, and the caller's object still
\* allows generation.
C33_Witness ==
    /\ lastCall.op = "registerPayload"
    /\ lastCall.masterOverride = F
    /\ Get(lastCall.payload, "generationAllowed") = T
    /\ Get(lastCall.payload, "previewUrl") = Some("A")
    /\ Get(lastCall.payload, "layers") = Some(MixedLayers)
    /\ LET stored == Lookup(payloadRegistry, FullProducer, Port)
       IN  /\ GetOpt(stored, "generationAllowed") = F
           /\ GetOpt(stored, "isConfirmed") = F
           /\ GetOpt(stored, "previewUrl") = UNDEF
           /\ GetOpt(stored, "layers") =
                  Some(<< Layer("0.1", "pixel", <<>>), Layer("0.2", "generative", <<>>) >>)

----------------------------------------------------------------------------
(* The closed gate under partial writes (SpecGate) *)

\* the partial has a generationAllowed key of its own
CarriesGate(partial) == "generationAllowed" \in Range(partial.ord)

\* the artifact has generationAllowed false, no preview and the four flags off
SwitchedOff(stored) ==
    /\ GetOpt(stored, "generationAllowed") = F
    /\ GetOpt(stored, "previewUrl") = UNDEF
    /\ \A k \in {"isConfirmed", "isTransient", "isSynthesizing", "requiresGeneration"} :
           GetOpt(stored, k) = F

\* C32: when the artifact stored at a slot has generationAllowed false, then
\* after any updatePayload whose partial does not itself carry
\* generationAllowed the stored artifact still has generationAllowed false, no
\* previewUrl, and isConfirmed, isTransient, isSynthesizing and
\* requiresGeneration false, even when the partial supplies a previewUrl or
\* isSynthesizing true.
C32_DisallowIsSticky ==
    [][ ( /\ lastCall'.op = "updatePayload"
          /\ GetOpt(SlotBefore(lastCall'), "generationAllowed") = F
          /\ ~CarriesGate(lastCall'.payload) ) =>
            (SlotAfter(lastCall') # UNDEF /\ SwitchedOff(SlotAfter(lastCall')))
      ]_vars

\* C32 witness: a partial that starts a synthesis was merged into a slot whose
\* artifact had been switched off by an earlier write, and the slot is still
\* switched off while carrying the partial's generationId.
C32_Witness ==
    /\ lastCall.op = "updatePayload"
    /\ Get(lastCall.payload, "isSynthesizing") = T
    /\ changed
    /\ LET stored == Lookup(payloadRegistry, FullProducer, Port)
       IN  /\ SwitchedOff(stored)
           /\ GetOpt(stored, "generationId") = Some(MaxGen)

----------------------------------------------------------------------------
(* updatePreview (SpecPreview) *)

\* the keys of an artifact in insertion order, previewUrl left out
OtherKeys(o) == SelectSeq(o.ord, LAMBDA k : k # "previewUrl")

\* C34: updatePreview(p, h, url) does nothing when producer p or slot (p, h)
\* holds no artifact or the stored previewUrl already equals url; otherwise it
\* changes only the previewUrl of that one artifact and leaves its other
\* fields, every other slot and every other registry as they were.
C34_UpdatePreview ==
    [][ lastCall'.op = "updatePreview" =>
            LET before == SlotBefore(lastCall')
                after  == SlotAfter(lastCall')
                url    == lastCall'.url
            IN  IF before = UNDEF \/ GetOpt(before, "previewUrl") = Some(url)
                THEN registries' = registries /\ ~changed'
                ELSE /\ after # UNDEF
                     /\ GetOpt(after, "previewUrl") = Some(url)
                     /\ \A k \in Keys \ {"previewUrl"} : GetOpt(after, k) = GetOpt(before, k)
                     /\ OtherKeys(after[1]) = OtherKeys(before[1])
                     /\ \A s \in Slots :
                            s # <<lastCall'.nodeId, lastCall'.handleId>> =>
                                Lookup(payloadRegistry', s[1], s[2]) =
                                    Lookup(payloadRegistry, s[1], s[2])
                     /\ DOMAIN payloadRegistry' = DOMAIN payloadRegistry
                     /\ \A i \in DOMAIN registries :
                            i # 4 => registries'[i] = registries[i]
      ]_vars

\* C34 witness: a preview replaced the one an artifact had, while the other
\* port of the producer, the other producer and the reviewer registry hold
\* artifacts, the one on the other port with the preview it was written with.
C34_Witness ==
    /\ lastCall.op = "updatePreview"
    /\ lastCall.url = "R"
    /\ changed
    /\ GetOpt(Lookup(payloadRegistry, lastCall.nodeId, lastCall.handleId), "previewUrl") = Some("R")
    /\ \A s \in Slots : Lookup(payloadRegistry, s[1], s[2]) # UNDEF
    /\ \E s \in Slots : GetOpt(Lookup(payloadRegistry, s[1], s[2]), "previewUrl") = Some("P")
    /\ Lookup(reviewerRegistry, FullProducer, Port) # UNDEF

----------------------------------------------------------------------------
(* Overrides without a scale, repeated overrides, the polished mark
   (SpecOverrides) *)

\* override j is the first of the list that names the layer id
IsFirstFor(j, id) ==
    /\ oOverrides[j].layerId = id
    /\ \A k \in 1..(j - 1) : oOverrides[k].layerId # id

\* C38: an override whose individualScale is 0 or absent scales by 1 (width,
\* height, scaleX and scaleY as they were); when several overrides name the
\* same layer id only the first in list order is used; and the payload
\* returned has isPolished true, also for an empty override list.
C38_ScaleDefaultFirstMatch ==
    oResult # UNDEF =>
        /\ Get(oResult[1], "isPolished") = T
        /\ \A i \in DOMAIN LayersIn : \A j \in DOMAIN oOverrides :
               IsFirstFor(j, LayersIn[i].id) =>
                   LET o == oOverrides[j]
                   IN  /\ MovedBy(LayersIn[i], LayersOut[i], o,
                                  IF o.individualScale \in {UNDEF, Some(Num(0))}
                                  THEN Num(1) ELSE o.individualScale[1])
                       /\ o.individualScale \in {UNDEF, Some(Num(0))} =>
                              /\ LayersOut[i].coords.w = LayersIn[i].coords.w
                              /\ LayersOut[i].coords.h = LayersIn[i].coords.h
                              /\ LayersOut[i].transform.scaleX = LayersIn[i].transform.scaleX
                              /\ LayersOut[i].transform.scaleY = LayersIn[i].transform.scaleY

\* C38 witness: two overrides named layer "a", the first with individualScale
\* 0 and the second with 0.9; the layer moved by the first only and kept its
\* size, and the payload is marked polished.
C38_Witness ==
    /\ oResult # UNDEF
    /\ Get(oPayload, "layers")[1] = << LeafA >>
    /\ oOverrides = << Override("a", 0, 3, Some(Num(0)), Some(Num(15))),
                       Override("a", 5, -5, Some(Rat(9, 10)), UNDEF) >>
    /\ LayersOut[1].coords = Coords(10, 13, 100, 50)
    /\ LayersOut[1].transform.scaleX = Num(1)
    /\ LayersOut[1].transform.rotation = Some(Num(15))
    /\ Get(oResult[1], "isPolished") = T

----------------------------------------------------------------------------
(* Sanitation of resolved contexts (SpecResolved) *)

\* C36: when context.generationAllowed is false or
\* context.aiStrategy.generationAllowed is false, the context stored at the
\* slot has no previewUrl, generationAllowed false and, if it has an
\* aiStrategy, an empty generativePrompt and generationAllowed false in it;
\* when generation is not disallowed and aiStrategy.method is 'GEOMETRIC', the
\* stored context has no previewUrl and an empty generativePrompt.
C36_ResolvedSanitation ==
    [][ lastCall'.op = "registerResolved" =>
            LET context  == lastCall'.payload
                ai       == Get(context, "aiStrategy")
                stored   == Lookup(resolvedRegistry', lastCall'.nodeId, lastCall'.handleId)
                storedAi == GetOpt(stored, "aiStrategy")
                off      == \/ Get(context, "generationAllowed") = F
                            \/ (ai # UNDEF /\ Get(ai[1], "generationAllowed") = F)
            IN  /\ stored # UNDEF
                /\ off =>
                       /\ GetOpt(stored, "previewUrl") = UNDEF
                       /\ GetOpt(stored, "generationAllowed") = F
                       /\ (storedAi # UNDEF) = (ai # UNDEF)
                       /\ ai # UNDEF =>
                              /\ GetOpt(storedAi, "generativePrompt") = Some("")
                              /\ GetOpt(storedAi, "generationAllowed") = F
                /\ (~off /\ ai # UNDEF /\ Get(ai[1], "method") = Some("GEOMETRIC")) =>
                       /\ GetOpt(stored, "previewUrl") = UNDEF
                       /\ GetOpt(storedAi, "generativePrompt") = Some("")
      ]_vars

\* C36 witness: a context that allows generation itself but whose strategy
\* does not was registered with a preview and a prompt; the slot holds it
\* without the preview, switched off, with an empty prompt, while the other
\* producer's slot holds a geometric context without preview and prompt.
C36_Witness ==
    /\ lastCall.op = "registerResolved"
    /\ lastCall.nodeId = FullProducer
    /\ Get(lastCall.payload, "generationAllowed") = T
    /\ GetOpt(Get(lastCall.payload, "aiStrategy"), "generationAllowed") = F
    /\ Get(lastCall.payload, "previewUrl") = Some("G")
    /\ LET stored == Lookup(resolvedRegistry, FullProducer, Port)
           other  == Lookup(resolvedRegistry, SideProducer, Port)
       IN  /\ GetOpt(stored, "previewUrl") = UNDEF
           /\ GetOpt(stored, "generationAllowed") = F
           /\ GetOpt(GetOpt(stored, "aiStrategy"), "generativePrompt") = Some("")
           /\ GetOpt(GetOpt(stored, "aiStrategy"), "generationAllowed") = F
           /\ GetOpt(GetOpt(other, "aiStrategy"), "method") = Some("GEOMETRIC")
           /\ GetOpt(GetOpt(other, "aiStrategy"), "generativePrompt") = Some("")
           /\ GetOpt(other, "generationAllowed") = T
           /\ GetOpt(other, "previewUrl") = UNDEF

----------------------------------------------------------------------------
(* Knowledge scoping (SpecScoper) *)

Scoped == scoper.result[1]

\* the lines a reader takes for rules, and the scope each belongs to: that of
\* the nearest header above it, the global scope when there is none
RuleLines == {i \in DOMAIN scoper.lines : scoper.lines[i].kind = "rule"}

OwnerOf(i) ==
    LET above == {j \in 1..(i - 1) : scoper.lines[j].kind = "header"}
    IN  IF above = {} THEN GLOBAL_KEY
        ELSE scoper.lines[CHOOSE j \in above : \A k \in above : j >= k].text

RECURSIVE Ascending(_)
Ascending(S) ==
    IF S = {} THEN << >>
    ELSE LET m == CHOOSE i \in S : \A j \in S : i <= j
         IN  << m >> \o Ascending(S \ {m})

\* the rules of the scope called name, trimmed and in input order
RulesUnder(name) ==
    LET at == Ascending({i \in RuleLines : OwnerOf(i) = name})
    IN  [n \in DOMAIN at |-> scoper.lines[at[n]].text]

RECURSIVE TotalRules(_)
TotalRules(scopes) ==
    IF scopes = << >> THEN 0 ELSE Len(Head(scopes).rules) + TotalRules(Tail(scopes))

\* C39: useKnowledgeScoper always returns a 'GLOBAL CONTEXT' scope, listed
\* first in availableScopes; every non-blank line is either taken as a header
\* (the scope exists from then on, empty if new) or appended, trimmed and in
\* input order, to exactly one scope: that of the most recent header, or
\* 'GLOBAL CONTEXT' before any header; so the number of stored rules is the
\* number of non-blank lines that are no headers.
C39_ScopingPartition ==
    scoper.result # UNDEF =>
        /\ Scoped.availableScopes[1] = GLOBAL_KEY
        /\ Scoped.availableScopes = ScopeNames(Scoped.scopes)
        /\ \A i, j \in DOMAIN Scoped.scopes :
               Scoped.scopes[i].name = Scoped.scopes[j].name => i = j
        /\ Range(Scoped.availableScopes) =
               {GLOBAL_KEY} \cup
               {scoper.lines[i].text : i \in {j \in DOMAIN scoper.lines :
                                                 scoper.lines[j].kind = "header"}}
        /\ \A k \in DOMAIN Scoped.scopes :
               Scoped.scopes[k].rules = RulesUnder(Scoped.scopes[k].name)
        /\ TotalRules(Scoped.scopes) = Cardinality(RuleLines)

\* C39 witness: a padded rule, a markdown header and a bulleted rule were
\* scoped: the first rule is in the global scope without its padding, the
\* second under the header's name.
C39_Witness ==
    /\ scoper.result # UNDEF
    /\ Len(scoper.lines) = 3
    /\ scoper.lines[1].raw = << " ", "u", "s", "e", " ", "a", " " >>
    /\ scoper.lines[2].raw = << "#", "#", " ", "H", "D" >>
    /\ scoper.lines[3].raw = << "-", " ", "B", "." >>
    /\ Scoped.scopes =
           << [name |-> GLOBAL_KEY, rules |-> << << "u", "s", "e", " ", "a" >> >>],
              [name |-> << "H", "D" >>, rules |-> << << "-", " ", "B", "." >> >>] >>

----------------------------------------------------------------------------
(* Audit invalidation in the reviewer row (SpecAudit) *)

\* a commit of the row: its effects ran with new props
CommitStep == audit'.rendered # audit.rendered

\* the row has recorded a defined generationId, and the payload it is handed
\* carries another generationId than the payload of its last render
GenerationChanged ==
    /\ audit.observed
    /\ audit.rendered # UNDEF
    /\ audit.rendered[1].incomingPayload # UNDEF
    /\ audit.incomingPayload # UNDEF
    /\ GenerationOf(audit.rendered[1].incomingPayload) # GenerationOf(audit.incomingPayload)

\* the store was last written at the row's reviewer slot with the payload
\* as it came in, marked unpolished
WrotePassThrough(incomingPayload) ==
    /\ lastCall'.op = "registerReviewerPayload"
    /\ lastCall'.handleId = PolishedOut(0)
    /\ lastCall'.payload = Put(incomingPayload, "isPolished", F)

\* C35 as stated: once a defined upstream generationId has been observed, any
\* later change of the incoming payload's generationId resets the instance's
\* reviewerStrategy to null and records the new id, and the reviewer slot
\* 'polished-out-<index>' is then written with the un-overridden incoming
\* payload, not with overrides computed for the previous generation.
C35_AuditInvalidation ==
    [][ (CommitStep /\ GenerationChanged) =>
            /\ audit'.state.reviewerStrategy = UNDEF
            /\ audit'.lastProcessedGenerationId = GenerationOf(audit.incomingPayload)
            /\ WrotePassThrough(audit.incomingPayload[1])
      ]_vars

====
